---- MODULE Spec2Model ----
(***************************************************************************)
(* LaunchForge: the configuration-embedding codec (src/utils/              *)
(* embedding_utils.py), the build engine (src/builder/builder_engine.py),  *)
(* the configuration model (src/models/config_model.py), its manager and   *)
(* validator (src/builder/config_manager.py, validator.py) and the editor  *)
(* handlers that change the configuration (src/ui/).                       *)
(*                                                                         *)
(* A byte string is a sequence of one-character strings; "xFF" stands for  *)
(* a byte that is not valid UTF-8.  Offsets are 0-based, as in the Python  *)
(* source; Slice(d, a, b) is d[a:b].                                       *)
(***************************************************************************)
EXTENDS Integers, Sequences, FiniteSets, TLC

VARIABLES
    fs, last, prov, embeds, tampered,       \* the codec: files, last call, history
    config, bpc, loc, sink, result, disk,   \* one BuilderEngine and its surroundings
    ui, host,                               \* the Build tab; the platform of the run
    mgr, store, call,                       \* one ConfigManager, the configuration files, the last call
    pair                                    \* two BuilderEngines in one working directory

codecVars == <<fs, last, prov, embeds, tampered>>

buildVars == <<config, bpc, loc, sink, result, disk, ui, host>>

modelVars == <<mgr, store, call, pair>>

vars == <<fs, last, prov, embeds, tampered, config, bpc, loc, sink, result, disk, ui, host,
          mgr, store, call, pair>>

(***************************************************************************)
(* Bytes and slices                                                        *)
(***************************************************************************)

CONFIG_MARKER_START == <<"<","<","<","L","A","U","N","C","H","F","O","R","G","E","_","C","O","N","F","I","G","_","S","T","A","R","T",">",">",">">>

CONFIG_MARKER_END == <<"<","<","<","L","A","U","N","C","H","F","O","R","G","E","_","C","O","N","F","I","G","_","E","N","D",">",">",">">>

Slice(d, a, b) == SubSeq(d, a + 1, b)

SliceFrom(d, a) == SubSeq(d, a + 1, Len(d))

\* bytes.find(sub, start): the lowest offset >= start at which sub occurs, or -1.
RECURSIVE Find(_, _, _)
Find(data, sub, start) ==
    IF start + Len(sub) > Len(data) THEN -1
    ELSE IF data[start + 1] = sub[1] /\ Slice(data, start, start + Len(sub)) = sub
         THEN start
    ELSE Find(data, sub, start + 1)

\* The byte alphabet of the model in ASCII order (sort_keys compares code points).
AsciiOrder ==
    <<"\t", "\n", "\r", " ", "\"", ",", "/", ":", "<", ">",
      "A", "C", "D", "E", "F", "G", "H", "I", "L", "N", "O", "P", "R", "S",
      "T", "U", "X", "Y", "Z", "\\", "_", "k", "m", "{", "}", "xFF">>

Ord(c) == CHOOSE i \in 1..Len(AsciiOrder) : AsciiOrder[i] = c

\* bytes.decode('utf-8') raises UnicodeDecodeError on a byte that is not UTF-8.
DecodeOk(bytes) == \A i \in 1..Len(bytes) : bytes[i] # "xFF"

(***************************************************************************)
(* JSON values: a string [t |-> "str", s, kv |-> <<>>] or an object        *)
(* [t |-> "obj", s |-> <<>>, kv] whose kv is the insertion-ordered list of *)
(* <<key, value>> pairs of a Python dict; [t |-> "none"] is None.          *)
(***************************************************************************)

JStr(s) == [t |-> "str", s |-> s, kv |-> <<>>]

JObj(kv) == [t |-> "obj", s |-> <<>>, kv |-> kv]

JNone == [t |-> "none", s |-> <<>>, kv |-> <<>>]

\* dict[key] = value: an existing key keeps its position and takes the new value.
Put(kv, key, val) ==
    IF \E i \in 1..Len(kv) : kv[i][1] = key
    THEN [i \in 1..Len(kv) |-> IF kv[i][1] = key THEN <<key, val>> ELSE kv[i]]
    ELSE Append(kv, <<key, val>>)

HasKey(kv, key) == \E i \in 1..Len(kv) : kv[i][1] = key

Get(kv, key) == kv[CHOOSE i \in 1..Len(kv) : kv[i][1] = key][2]

\* Structural equality of parsed JSON: same type; strings equal; objects with the
\* same key set and equal values under each key (Python dict ==).
RECURSIVE JsonEq(_, _)
JsonEq(a, b) ==
    /\ a.t = b.t
    /\ a.t = "str" => a.s = b.s
    /\ a.t = "obj" =>
         /\ Len(a.kv) = Len(b.kv)
         /\ \A i \in 1..Len(a.kv) :
              /\ HasKey(b.kv, a.kv[i][1])
              /\ JsonEq(a.kv[i][2], Get(b.kv, a.kv[i][1]))

(***************************************************************************)
(* json.dumps                                                              *)
(***************************************************************************)

\* The JSON escape of one character of a str (ensure_ascii; ASCII alphabet).
EscapeChar(c) ==
    IF c = "\"" THEN <<"\\", "\"">>
    ELSE IF c = "\\" THEN <<"\\", "\\">>
    ELSE IF c = "\n" THEN <<"\\", "n">>
    ELSE IF c = "\r" THEN <<"\\", "r">>
    ELSE IF c = "\t" THEN <<"\\", "t">>
    ELSE <<c>>

RECURSIVE Escape(_)
Escape(s) == IF Len(s) = 0 THEN <<>> ELSE EscapeChar(Head(s)) \o Escape(Tail(s))

Quote(s) == <<"\"">> \o Escape(s) \o <<"\"">>

RECURSIVE Spaces(_)
Spaces(n) == IF n = 0 THEN <<>> ELSE <<" ">> \o Spaces(n - 1)

\* json.dumps(v, indent=2), at nesting depth `level`.
RECURSIVE Dumps(_, _), DumpItems(_, _, _)
Dumps(v, level) ==
    IF v.t = "str" THEN Quote(v.s)
    ELSE IF Len(v.kv) = 0 THEN <<"{", "}">>
    ELSE <<"{">> \o DumpItems(v.kv, 1, level + 1)
           \o <<"\n">> \o Spaces(2 * level) \o <<"}">>

DumpItems(kv, i, level) ==
    <<"\n">> \o Spaces(2 * level) \o Quote(kv[i][1]) \o <<":", " ">>
       \o Dumps(kv[i][2], level)
       \o (IF i < Len(kv) THEN <<",">> \o DumpItems(kv, i + 1, level) ELSE <<>>)

\* str < str by code point.
RECURSIVE LexLess(_, _)
LexLess(a, b) ==
    IF Len(b) = 0 THEN FALSE
    ELSE IF Len(a) = 0 THEN TRUE
    ELSE IF Head(a) = Head(b) THEN LexLess(Tail(a), Tail(b))
    ELSE Ord(Head(a)) < Ord(Head(b))

\* sorted(dict.items()): the pairs in increasing key order.
RECURSIVE SortItems(_)
SortItems(kv) ==
    IF Len(kv) = 0 THEN <<>>
    ELSE LET i == CHOOSE i \in 1..Len(kv) :
                     \A j \in 1..Len(kv) : j # i => LexLess(kv[i][1], kv[j][1])
         IN <<kv[i]>> \o SortItems(SubSeq(kv, 1, i - 1) \o SubSeq(kv, i + 1, Len(kv)))

\* json.dumps(v, sort_keys=True): one line, ", " and ": " separators.
RECURSIVE DumpsSorted(_), DumpSortedItems(_, _)
DumpsSorted(v) ==
    IF v.t = "str" THEN Quote(v.s)
    ELSE IF Len(v.kv) = 0 THEN <<"{", "}">>
    ELSE <<"{">> \o DumpSortedItems(SortItems(v.kv), 1) \o <<"}">>

DumpSortedItems(kv, i) ==
    Quote(kv[i][1]) \o <<":", " ">> \o DumpsSorted(kv[i][2])
       \o (IF i < Len(kv) THEN <<",", " ">> \o DumpSortedItems(kv, i + 1) ELSE <<>>)

(***************************************************************************)
(* json.loads, over the model's alphabet: a value is a string or an object *)
(* (the alphabet has no digit, "[", "-" or lower-case literal letter).     *)
(***************************************************************************)

JSON_WHITESPACE == {" ", "\t", "\n", "\r"}

ParseFail == [ok |-> FALSE, val |-> JNone, next |-> 0]

RECURSIVE SkipWs(_, _)
SkipWs(s, i) == IF i <= Len(s) /\ s[i] \in JSON_WHITESPACE THEN SkipWs(s, i + 1) ELSE i

\* The character an escape \c stands for, <<>> when \c is no escape.
Unescape(c) ==
    IF c \in {"\"", "\\", "/"} THEN <<c>> ELSE <<>>

\* py_scanstring (strict): s[i..] after the opening quote, acc the characters so far.
RECURSIVE ScanString(_, _, _)
ScanString(s, i, acc) ==
    IF i > Len(s) THEN ParseFail
    ELSE IF s[i] = "\"" THEN [ok |-> TRUE, val |-> JStr(acc), next |-> i + 1]
    ELSE IF s[i] = "\\" THEN
        IF i + 1 <= Len(s) /\ Unescape(s[i + 1]) # <<>>
        THEN ScanString(s, i + 2, acc \o Unescape(s[i + 1]))
        ELSE ParseFail
    ELSE IF s[i] \in {"\t", "\n", "\r"} THEN ParseFail
    ELSE ScanString(s, i + 1, Append(acc, s[i]))

RECURSIVE ParseValue(_, _), ParseMembers(_, _, _)
\* scan_once: the value starting at s[i].
ParseValue(s, i) ==
    IF i > Len(s) THEN ParseFail
    ELSE IF s[i] = "\"" THEN ScanString(s, i + 1, <<>>)
    ELSE IF s[i] = "{" THEN
        LET j == SkipWs(s, i + 1)
        IN IF j > Len(s) THEN ParseFail
           ELSE IF s[j] = "}" THEN [ok |-> TRUE, val |-> JObj(<<>>), next |-> j + 1]
           ELSE ParseMembers(s, j, <<>>)
    ELSE ParseFail

\* JSONObject: the members from the key at s[j] on; acc the pairs so far.
ParseMembers(s, j, acc) ==
    IF j > Len(s) \/ s[j] # "\"" THEN ParseFail
    ELSE LET key == ScanString(s, j + 1, <<>>)
         IN IF ~key.ok THEN ParseFail
            ELSE LET c == SkipWs(s, key.next)
                 IN IF c > Len(s) \/ s[c] # ":" THEN ParseFail
                    ELSE LET v == ParseValue(s, SkipWs(s, c + 1))
                         IN IF ~v.ok THEN ParseFail
                            ELSE LET e == SkipWs(s, v.next)
                                     kv == Put(acc, key.val.s, v.val)
                                 IN IF e > Len(s) THEN ParseFail
                                    ELSE IF s[e] = "}" THEN
                                        [ok |-> TRUE, val |-> JObj(kv), next |-> e + 1]
                                    ELSE IF s[e] = "," THEN
                                        ParseMembers(s, SkipWs(s, e + 1), kv)
                                    ELSE ParseFail

\* json.loads(text): ok is FALSE where it raises JSONDecodeError.
Loads(text) ==
    LET v == ParseValue(text, SkipWs(text, 1))
    IN IF v.ok /\ SkipWs(text, v.next) = Len(text) + 1 THEN v ELSE ParseFail

(***************************************************************************)
(* The codec on byte strings                                               *)
(***************************************************************************)

\* EmbedBytes with the end-marker check dropped: a START marker without an END
\* marker is treated like a template without markers.
EmbedBytesNoEndCheck(template_data, config_data) ==
    LET data_block == CONFIG_MARKER_START \o Dumps(config_data, 0) \o CONFIG_MARKER_END
        start_idx == Find(template_data, CONFIG_MARKER_START, 0)
        end_idx == Find(template_data, CONFIG_MARKER_END, start_idx)
    IN IF start_idx # -1 /\ end_idx # -1
       THEN [ok |-> TRUE, msg |-> "",
             out |-> Slice(template_data, 0, start_idx) \o data_block
                       \o SliceFrom(template_data, end_idx + Len(CONFIG_MARKER_END))]
       ELSE [ok |-> TRUE, msg |-> "", out |-> template_data \o data_block]

\* EmbedBytes with the tail taken from end_idx instead of end_pos: the old END
\* marker stays in the output.
EmbedBytesKeepOldEnd(template_data, config_data) ==
    LET data_block == CONFIG_MARKER_START \o Dumps(config_data, 0) \o CONFIG_MARKER_END
        start_idx == Find(template_data, CONFIG_MARKER_START, 0)
        end_idx == Find(template_data, CONFIG_MARKER_END, start_idx)
    IN IF start_idx # -1 THEN
           IF end_idx = -1
           THEN [ok |-> FALSE, msg |-> "Template has invalid configuration markers",
                 out |-> <<>>]
           ELSE [ok |-> TRUE, msg |-> "",
                 out |-> Slice(template_data, 0, start_idx) \o data_block
                           \o SliceFrom(template_data, end_idx)]
       ELSE [ok |-> TRUE, msg |-> "", out |-> template_data \o data_block]

\* embed_config, from the JSON rendering to the spliced output bytes.
EmbedBytes(template_data, config_data) ==
    LET config_bytes == Dumps(config_data, 0)
        data_block == CONFIG_MARKER_START \o config_bytes \o CONFIG_MARKER_END
        start_idx == Find(template_data, CONFIG_MARKER_START, 0)
    IN IF start_idx # -1 THEN
           LET end_idx == Find(template_data, CONFIG_MARKER_END, start_idx)
               end_pos == end_idx + Len(CONFIG_MARKER_END)
           IN IF end_idx = -1
              THEN [ok |-> FALSE, msg |-> "Template has invalid configuration markers",
                    out |-> <<>>]
              ELSE [ok |-> TRUE, msg |-> "",
                    out |-> Slice(template_data, 0, start_idx) \o data_block
                              \o SliceFrom(template_data, end_pos)]
       ELSE [ok |-> TRUE, msg |-> "", out |-> template_data \o data_block]

\* ExtractBytes with the end-marker check dropped: file_data[start_data_idx:-1] is
\* parsed when no END marker follows.
ExtractBytesNoEndCheck(file_data) ==
    LET start_idx == Find(file_data, CONFIG_MARKER_START, 0)
        end_idx == Find(file_data, CONFIG_MARKER_END, start_idx)
        start_data_idx == start_idx + Len(CONFIG_MARKER_START)
        payload == Slice(file_data, start_data_idx,
                         IF end_idx = -1 THEN Len(file_data) - 1 ELSE end_idx)
    IN IF start_idx = -1 THEN [ret |-> JNone, why |-> "no_start"]
       ELSE IF ~DecodeOk(payload) THEN [ret |-> JNone, why |-> "exception"]
       ELSE IF ~Loads(payload).ok THEN [ret |-> JNone, why |-> "exception"]
       ELSE [ret |-> Loads(payload).val, why |-> "ok"]

\* extract_config on the bytes read: ret is what the caller gets (JNone is None),
\* why is the branch taken (visible in the log only).
ExtractBytes(file_data) ==
    LET start_idx == Find(file_data, CONFIG_MARKER_START, 0)
        end_idx == Find(file_data, CONFIG_MARKER_END, start_idx)
        start_data_idx == start_idx + Len(CONFIG_MARKER_START)
        payload == Slice(file_data, start_data_idx, end_idx)
    IN IF start_idx = -1 THEN [ret |-> JNone, why |-> "no_start"]
       ELSE IF end_idx = -1 THEN [ret |-> JNone, why |-> "no_end"]
       ELSE IF ~DecodeOk(payload) THEN [ret |-> JNone, why |-> "exception"]
       ELSE IF ~Loads(payload).ok THEN [ret |-> JNone, why |-> "exception"]
       ELSE [ret |-> Loads(payload).val, why |-> "ok"]

\* VerifyExtracted comparing the renderings in insertion order (no sort_keys).
VerifyExtractedUnsorted(extracted_config, expected_config) ==
    IF extracted_config.t = "none" THEN FALSE
    ELSE Dumps(extracted_config, 0) = Dumps(expected_config, 0)

\* VerifyExtracted that only checks that some configuration was extracted.
VerifyExtractedAny(extracted_config, expected_config) ==
    extracted_config.t # "none"

\* verify_embedding once the file is read: both sides rendered with sort_keys.
VerifyExtracted(extracted_config, expected_config) ==
    IF extracted_config.t = "none" THEN FALSE
    ELSE DumpsSorted(extracted_config) = DumpsSorted(expected_config)

(***************************************************************************)
(* The files, the configurations and the state                             *)
(***************************************************************************)

Paths == {"tpl", "out"}

\* os.name of the machine the tool runs on.
os_name == "posix"

NoFile == [exists |-> FALSE, data |-> <<>>, exec |-> FALSE]

FileOf(bytes) == [exists |-> TRUE, data |-> bytes, exec |-> FALSE]

\* The configuration dicts handed to embed and verify: two with the same items in
\* a different insertion order, and one whose text holds the END marker.
Configs ==
    << JObj(<< <<(<<"k">>), JStr(<<" ">>)>>, <<(<<"m">>), JStr(<<"\"">>)>> >>),
       JObj(<< <<(<<"m">>), JStr(<<"\"">>)>>, <<(<<"k">>), JStr(<<" ">>)>> >>),
       JObj(<< <<(<<"k">>), JStr(CONFIG_MARKER_END)>> >>) >>

ConfigIds == 1..Len(Configs)

\* The template files a run starts from: no marker; a marker-delimited payload that is
\* not JSON, followed by more bytes; an END marker and then a START marker with no END after it; an
\* END marker only.
Templates ==
    { <<"T", "P", "L">>,
      <<"T">> \o CONFIG_MARKER_START \o <<"{">> \o CONFIG_MARKER_END \o <<"L">>,
      CONFIG_MARKER_END \o <<"T">> \o CONFIG_MARKER_START \o <<"{", "}", "L">>,
      <<"T">> \o CONFIG_MARKER_END }

\* The bytes an outside change writes over one byte of a payload.
TamperBytes == {" ", "\n", "\"", "\\", "Z", "xFF"}

MaxEmbeds == 2

NoLast ==
    [op |-> "none", tpath |-> "tpl", path |-> "tpl", cfg |-> 0, ok |-> FALSE,
     msg |-> "", ret |-> JNone, why |-> "", tpre |-> NoFile, opre |-> NoFile,
     reembed |-> FALSE]

NoProv == [cfg |-> 0, base |-> <<>>, tpos |-> 0, told |-> "", tnew |-> ""]

\* prov[p] (history): the configuration last embedded in file p and the template
\* bytes the chain of embeds started from; tpos > 0 once one payload byte was changed.
Intact(pv) == pv.cfg # 0 /\ pv.tpos = 0

\* The codec before any call, on template t.
CodecInit(t) ==
    /\ fs = [p \in Paths |-> IF p = "tpl" THEN FileOf(t) ELSE NoFile]
    /\ last = NoLast
    /\ prov = [p \in Paths |-> NoProv]
    /\ embeds = 0
    /\ tampered = FALSE

(***************************************************************************)
(* The configuration (src/models/config_model.py) and its validation       *)
(* (src/builder/validator.py).  Text fields are sequences of characters.   *)
(***************************************************************************)

WHITESPACE == {" ", "\t", "\n", "\r"}

DIGITS == {"0", "1", "2", "3", "4", "5", "6", "7", "8", "9"}

\* str.strip()
RECURSIVE strip(_)
strip(s) ==
    IF Len(s) = 0 THEN s
    ELSE IF s[1] \in WHITESPACE THEN strip(Tail(s))
    ELSE IF s[Len(s)] \in WHITESPACE THEN strip(SubSeq(s, 1, Len(s) - 1))
    ELSE s

StartsWith(s, p) == Len(s) >= Len(p) /\ SubSeq(s, 1, Len(p)) = p

\* The subjects a pattern ending in $ accepts: $ matches at the end of the
\* string and just before a newline that ends it.
DollarEnds(s) ==
    {Len(s)} \cup (IF Len(s) > 0 /\ s[Len(s)] = "\n" THEN {Len(s) - 1} ELSE {})

AllDigits(s, a, b) == a <= b /\ \A i \in a..b : s[i] \in DIGITS

\* re.match(r'^\d+\.\d+\.\d+$', version)
_is_valid_version(version) ==
    \E e \in DollarEnds(version) : \E i, j \in 1..e :
        /\ i < j
        /\ version[i] = "." /\ version[j] = "."
        /\ AllDigits(version, 1, i - 1)
        /\ AllDigits(version, i + 1, j - 1)
        /\ AllDigits(version, j + 1, e)

\* re.match(prefix + r'\S+$', url) for a literal prefix
MatchesHost(url, prefix) ==
    /\ StartsWith(url, prefix)
    /\ \E e \in DollarEnds(url) :
          /\ e > Len(prefix)
          /\ \A i \in (Len(prefix) + 1)..e : url[i] \notin WHITESPACE

\* re.match(r'^(https?|ftp)://[^\s/$.?#].[^\s]*$', url)
MatchesGenericUrl(url) ==
    \E scheme \in {<<"h", "t", "t", "p", ":", "/", "/">>, <<"h", "t", "t", "p", "s", ":", "/", "/">>, <<"f", "t", "p", ":", "/", "/">>} :
        /\ StartsWith(url, scheme)
        /\ \E e \in DollarEnds(url) :
              LET n == Len(scheme)
              IN /\ e >= n + 2
                 /\ url[n + 1] \notin WHITESPACE \cup {"/", "$", ".", "?", "#"}
                 /\ url[n + 2] # "\n"
                 /\ \A i \in (n + 3)..e : url[i] \notin WHITESPACE

\* A check that accepts every URL.
_is_valid_url_any(url) == TRUE

_is_valid_url(url) ==
    IF ~MatchesGenericUrl(url)
    THEN \/ MatchesHost(url, <<"h", "t", "t", "p", "s", ":", "/", "/", "d", "r", "i", "v", "e", ".", "g", "o", "o", "g", "l", "e", ".", "c", "o", "m", "/">>)
         \/ MatchesHost(url, <<"h", "t", "t", "p", "s", ":", "/", "/", "w", "w", "w", ".", "d", "r", "o", "p", "b", "o", "x", ".", "c", "o", "m", "/">>)
    ELSE TRUE

\* A check of a mod that stops at its first error.
ModErrorsFirstOnly(i, mod) ==
    LET prefix == "mod_" \o ToString(i)
    IN IF strip(mod.name) = <<>>
       THEN {<<prefix \o "_name", <<"Mod ", <<ToString(i + 1)>>, " requires a name">>>>}
       ELSE IF strip(mod.target_path) = <<>>
       THEN {<<prefix \o "_target_path", <<"Mod '", mod.name, "' requires a target path">>>>}
       ELSE IF strip(mod.download_url) = <<>>
       THEN {<<prefix \o "_download_url", <<"Mod '", mod.name, "' requires a download URL">>>>}
       ELSE IF ~_is_valid_url(mod.download_url)
       THEN {<<prefix \o "_download_url", <<"Mod '", mod.name, "' has an invalid download URL">>>>}
       ELSE {}

\* The errors of mod number i (0-based) of the list.
ModErrors(i, mod) ==
    LET prefix == "mod_" \o ToString(i)
    IN (IF strip(mod.name) = <<>>
        THEN {<<prefix \o "_name", <<"Mod ", <<ToString(i + 1)>>, " requires a name">>>>}
        ELSE {})
       \cup
       (IF strip(mod.target_path) = <<>>
        THEN {<<prefix \o "_target_path", <<"Mod '", mod.name, "' requires a target path">>>>}
        ELSE {})
       \cup
       (IF strip(mod.download_url) = <<>>
        THEN {<<prefix \o "_download_url", <<"Mod '", mod.name, "' requires a download URL">>>>}
        ELSE IF ~_is_valid_url(mod.download_url)
        THEN {<<prefix \o "_download_url", <<"Mod '", mod.name, "' has an invalid download URL">>>>}
        ELSE {})

\* validate_config(config): the dict of errors as a set of <<field, message>> pairs.
validate_config(c) ==
    (IF strip(c.name) = <<>>
     THEN {<<"name", <<"Launcher name is required">>>>} ELSE {})
    \cup
    (IF strip(c.game_exe) = <<>>
     THEN {<<"game_exe", <<"Game executable path is required">>>>} ELSE {})
    \cup
    (IF c.version # <<>> /\ ~_is_valid_version(c.version)
     THEN {<<"version", <<"Version must be in format X.Y.Z (e.g., 1.0.0)">>>>} ELSE {})
    \cup
    (IF c.mods = <<>>
     THEN {<<"mods", <<"At least one mod is required">>>>} ELSE {})
    \cup
    UNION {ModErrors(i - 1, c.mods[i]) : i \in 1..Len(c.mods)}
    \cup
    (IF c.validation_files = <<>>
     THEN {<<"validation_files", <<"At least one validation file is required">>>>}
     ELSE {})
    \cup
    (IF c.target_os \notin {"windows", "macos", "linux"}
     THEN {<<"target_os", <<"Target OS must be 'windows', 'macos', or 'linux'">>>>}
     ELSE {})

\* A LauncherConfig before its fields are set.
NoConfig ==
    [name |-> <<>>, game_exe |-> <<>>, description |-> <<>>, version |-> <<>>,
     mods |-> <<>>, validation_files |-> <<>>, default_locations |-> <<>>,
     target_os |-> "", created |-> 0, updated |-> 0]

(***************************************************************************)
(* ModConfig and LauncherConfig (src/models/config_model.py).  An object   *)
(* is a record of its fields; a dict is a function from its keys; ids are  *)
(* strings and timestamps are numbers.                                     *)
(***************************************************************************)

\* None, where an id is expected.
None == "None"

\* The values uuid4() returns, in the order the model hands them out; a call
\* returns one that is in use nowhere.
UUIDS == <<"u1", "u2", "u3", "u4">>

\* str(uuid.uuid4()), given the ids in use.
uuid4(used) ==
    UUIDS[CHOOSE i \in 1..Len(UUIDS) :
              /\ UUIDS[i] \notin used
              /\ \A j \in 1..(i - 1) : UUIDS[j] \in used]

\* The readings of datetime.now().isoformat(): the editor's handlers run at
\* EditTime, after the documents were written (0); later readings are in Times.
EditTime == 1

Times == {1, 2}

ModIds(mods) == {mods[i].id : i \in 1..Len(mods)}

\* A get that ignores the dict.
DictGetDefault(data, key, default) == default

\* dict.get(key, default)
DictGet(data, key, default) == IF key \in DOMAIN data THEN data[key] ELSE default

\* ModConfig.__post_init__: a missing id is replaced by a fresh one.
ModConfig___post_init__(self, used) ==
    IF self.id = None THEN [self EXCEPT !.id = uuid4(used)] ELSE self

\* ModConfig.to_dict()
ModConfig_to_dict(self) ==
    [id |-> self.id, name |-> self.name, target_path |-> self.target_path,
     download_url |-> self.download_url, description |-> self.description,
     version |-> self.version, is_required |-> self.is_required]

NoMod ==
    [id |-> None, name |-> <<>>, target_path |-> <<>>, download_url |-> <<>>,
     description |-> <<>>, version |-> <<>>, is_required |-> FALSE]

\* A from_dict that draws a new id whatever the dict holds.
ModConfig_from_dict_NewId(data, used) ==
    IF {"name", "target_path", "download_url"} \subseteq DOMAIN data
    THEN [raised |-> "",
          mod |-> ModConfig___post_init__(
                      [id |-> None,
                       name |-> data["name"],
                       target_path |-> data["target_path"],
                       download_url |-> data["download_url"],
                       description |-> DictGet(data, "description", <<>>),
                       version |-> DictGet(data, "version", <<"1", ".", "0", ".", "0">>),
                       is_required |-> DictGet(data, "is_required", FALSE)], used)]
    ELSE [raised |-> "KeyError", mod |-> NoMod]

\* ModConfig.from_dict(data): data["name"], data["target_path"] and
\* data["download_url"] raise KeyError when the key is absent.
ModConfig_from_dict(data, used) ==
    IF {"name", "target_path", "download_url"} \subseteq DOMAIN data
    THEN [raised |-> "",
          mod |-> ModConfig___post_init__(
                      [id |-> DictGet(data, "id", None),
                       name |-> data["name"],
                       target_path |-> data["target_path"],
                       download_url |-> data["download_url"],
                       description |-> DictGet(data, "description", <<>>),
                       version |-> DictGet(data, "version", <<"1", ".", "0", ".", "0">>),
                       is_required |-> DictGet(data, "is_required", FALSE)], used)]
    ELSE [raised |-> "KeyError", mod |-> NoMod]

\* [ModConfig.from_dict(mod) for mod in dicts]: the objects made, or the
\* first exception; used grows by the ids already given out.
RECURSIVE ModsFromDicts(_, _)
ModsFromDicts(dicts, used) ==
    IF dicts = <<>> THEN [raised |-> "", mods |-> <<>>]
    ELSE LET first == ModConfig_from_dict(Head(dicts), used)
         IN IF first.raised # "" THEN [raised |-> first.raised, mods |-> <<>>]
            ELSE LET rest == ModsFromDicts(Tail(dicts), used \cup {first.mod.id})
                 IN IF rest.raised # "" THEN rest
                    ELSE [raised |-> "", mods |-> <<first.mod>> \o rest.mods]

\* f"{APP_NAME} v{APP_VERSION}"
CREATED_WITH == "LaunchForge v0.0.1"

\* LauncherConfig.to_dict(), called at time now.
LauncherConfig_to_dict(self, now) ==
    [name |-> self.name,
     game_exe |-> self.game_exe,
     description |-> self.description,
     version |-> self.version,
     mods |-> [i \in 1..Len(self.mods) |-> ModConfig_to_dict(self.mods[i])],
     validation_files |-> self.validation_files,
     default_locations |-> self.default_locations,
     target_os |-> self.target_os,
     created_with |-> CREATED_WITH,
     created |-> self.created,
     updated |-> now]

\* The ids a dict of a configuration names.
DictIds(data) ==
    LET dicts == DictGet(data, "mods", <<>>)
    IN {dicts[i]["id"] : i \in {j \in 1..Len(dicts) : "id" \in DOMAIN dicts[j]}}

\* LauncherConfig.from_dict(data), called at time now: data["name"] and
\* data["game_exe"] raise KeyError when the key is absent, and so does the
\* from_dict of a mod.
LauncherConfig_from_dict(data, now) ==
    IF ~({"name", "game_exe"} \subseteq DOMAIN data)
    THEN [raised |-> "KeyError", config |-> NoConfig]
    ELSE LET made == ModsFromDicts(DictGet(data, "mods", <<>>), DictIds(data))
         IN IF made.raised # "" THEN [raised |-> made.raised, config |-> NoConfig]
            ELSE [raised |-> "",
                  config |->
                     [name |-> data["name"],
                      game_exe |-> data["game_exe"],
                      description |-> DictGet(data, "description", <<>>),
                      version |-> DictGet(data, "version", <<"1", ".", "0", ".", "0">>),
                      mods |-> made.mods,
                      validation_files |-> DictGet(data, "validation_files", <<>>),
                      default_locations |-> DictGet(data, "default_locations", <<>>),
                      target_os |-> DictGet(data, "target_os", "windows"),
                      created |-> DictGet(data, "created", now),
                      updated |-> DictGet(data, "updated", now)]]

\* LauncherConfig.add_mod(mod), called at time now.
add_mod(self, mod, now) == [self EXCEPT !.mods = Append(@, mod), !.updated = now]

\* [mod for mod in mods if mod.id != mod_id]
RECURSIVE KeepOthers(_, _)
KeepOthers(mods, mod_id) ==
    IF mods = <<>> THEN <<>>
    ELSE IF Head(mods).id # mod_id THEN <<Head(mods)>> \o KeepOthers(Tail(mods), mod_id)
    ELSE KeepOthers(Tail(mods), mod_id)

\* A remove that drops the first entry with the id and keeps the later ones.
RECURSIVE DropFirst(_, _)
DropFirst(mods, mod_id) ==
    IF mods = <<>> THEN <<>>
    ELSE IF Head(mods).id # mod_id THEN <<Head(mods)>> \o DropFirst(Tail(mods), mod_id)
    ELSE Tail(mods)

\* A remove_mod that stops at the first entry with the id.
remove_mod_first(self, mod_id, now) ==
    LET kept == DropFirst(self.mods, mod_id)
        was_removed == Len(kept) < Len(self.mods)
    IN [self |-> IF was_removed THEN [self EXCEPT !.mods = kept, !.updated = now]
                 ELSE [self EXCEPT !.mods = kept],
        returned |-> was_removed]

\* LauncherConfig.remove_mod(mod_id), called at time now: the object after the
\* call and the value returned.
remove_mod(self, mod_id, now) ==
    LET kept == KeepOthers(self.mods, mod_id)
        was_removed == Len(kept) < Len(self.mods)
    IN [self |-> IF was_removed THEN [self EXCEPT !.mods = kept, !.updated = now]
                 ELSE [self EXCEPT !.mods = kept],
        returned |-> was_removed]

(***************************************************************************)
(* ConfigManager (src/builder/config_manager.py) and the editor's handlers *)
(* that change its configuration.  store maps a path to the file there;    *)
(* call records the last call: its argument, what it returned or raised,   *)
(* and (history) why it failed and how many mods there were before it.     *)
(***************************************************************************)

CONFIG_PATH == "config.json"

ConfigPaths == {CONFIG_PATH, "a.json"}

\* ConfigManager._create_default_config() at time now, with short texts.
_create_default_config(now) ==
    [name |-> <<"G", "1">>, game_exe |-> <<"g">>, description |-> <<"d">>,
     version |-> <<"1", ".", "0", ".", "0">>,
     mods |-> << ModConfig___post_init__(
                    [NoMod EXCEPT !.name = <<"m">>, !.target_path = <<"p">>,
                                  !.description = <<"c">>,
                                  !.version = <<"1", ".", "0", ".", "0">>,
                                  !.is_required = TRUE], {}) >>,
     validation_files |-> << <<"g">> >>, default_locations |-> <<>>,
     target_os |-> "windows", created |-> now, updated |-> now]

\* The default configuration once the author has entered the download URL of
\* its mod and selected the OS of the build host: what the builds start from.
DefaultMod ==
    [_create_default_config(0).mods[1] EXCEPT
        !.download_url = <<"h", "t", "t", "p", ":", "/", "/", "a", "b">>]

DefaultConfig ==
    [_create_default_config(0) EXCEPT !.mods = <<DefaultMod>>, !.target_os = "linux"]

\* LauncherConfig.to_dict(): the text-valued entries, in the order of the source.
to_dict(c) ==
    JObj(<< <<<<"n", "a", "m", "e">>, JStr(c.name)>>,
            <<<<"g", "a", "m", "e", "_", "e", "x", "e">>, JStr(c.game_exe)>>,
            <<<<"v", "e", "r", "s", "i", "o", "n">>, JStr(c.version)>> >>)

\* What to_dict() leaves in the object it is called on: it assigns nothing, the
\* "updated" entry of the dict is a fresh timestamp that is not stored.
SelfAfterToDictStored(self, now) == [self EXCEPT !.updated = now]

SelfAfterToDict(self, now) == self

\* ConfigManager.__init__()
ConfigManager(now) == [config |-> _create_default_config(now), config_path |-> CONFIG_PATH]

NoDoc == [none |-> TRUE]

\* What a path holds: nothing, text that is not JSON, a JSON array, or a JSON
\* object (doc is what json.load returns for it).
MissingFile == [kind |-> "missing", doc |-> NoDoc]

InvalidJson == [kind |-> "invalid", doc |-> NoDoc]

JsonArray == [kind |-> "array", doc |-> NoDoc]

JsonObject(doc) == [kind |-> "object", doc |-> doc]

ModDict(id) ==
    [id |-> id, name |-> <<"m">>, target_path |-> <<"p">>,
     download_url |-> <<"h", "t", "t", "p", ":", "/", "/", "a", "b">>,
     description |-> <<"c">>, version |-> <<"2", ".", "0", ".", "0">>, is_required |-> TRUE]

FullDoc(mods, target_os) ==
    [name |-> <<"N">>, game_exe |-> <<"e">>, description |-> <<"D">>,
     version |-> <<"2", ".", "0", ".", "0">>, mods |-> mods,
     validation_files |-> << <<"e">> >>, default_locations |-> << <<"/", "o">> >>,
     target_os |-> target_os, created_with |-> "LaunchForge v0.0.1",
     created |-> 0, updated |-> 0]

\* The files a user opens: saved configurations, documents edited by hand
\* (an unknown target_os, one id on two mods, entries left out), and files that
\* are no configuration.
UserFiles ==
    { MissingFile, InvalidJson, JsonArray,
      JsonObject(FullDoc(<<ModDict("a"), ModDict("b")>>, "macos")),
      JsonObject(FullDoc(<<ModDict("a")>>, "amiga")),
      JsonObject(FullDoc(<<ModDict("a"), ModDict("b"), ModDict("a")>>, "linux")),
      JsonObject([name |-> <<"N">>, game_exe |-> <<"e">>]),
      JsonObject([name |-> <<"N">>, game_exe |-> <<"e">>,
                  mods |-> << [name |-> <<"m">>, target_path |-> <<"p">>,
                               download_url |-> <<>>],
                              [name |-> <<"n">>, target_path |-> <<"p">>,
                               download_url |-> <<>>] >>]),
      JsonObject([game_exe |-> <<"e">>, target_os |-> "linux"]),
      JsonObject([name |-> <<"N">>, mods |-> <<>>]),
      JsonObject([name |-> <<"N">>, game_exe |-> <<"e">>,
                  mods |-> << ModDict("a"), [id |-> "b", target_path |-> <<"p">>,
                                             download_url |-> <<>>] >>]),
      JsonObject([name |-> <<"N">>, game_exe |-> <<"e">>,
                  mods |-> << [id |-> "a", name |-> <<"m">>, download_url |-> <<>>] >>]),
      JsonObject([name |-> <<"N">>, game_exe |-> <<"e">>,
                  mods |-> << [id |-> "a", name |-> <<"m">>, target_path |-> <<"p">>] >>]) }

\* Mods one configuration holds, at most.
MaxMods == 3

NoMgr == [config |-> NoConfig, config_path |-> ""]

NoCall ==
    [op |-> "none", arg |-> "", returned |-> FALSE, raised |-> "", why |-> "", n |-> 0,
     errors |-> {}, dict |-> NoDoc, back |-> NoConfig, calls |-> 0]

\* Calls on the manager in one run, at most.
MaxCalls == 4

\* The record of call number calls + 1.
NextCall == [NoCall EXCEPT !.calls = call.calls + 1]

\* The manager, the files and the engines of a run that does not use them.
ModelIdle ==
    /\ mgr = NoMgr
    /\ store = [p \in ConfigPaths |-> MissingFile]
    /\ call = NoCall
    /\ pair = <<>>

otherVars == <<fs, last, prov, embeds, tampered, config, bpc, loc, sink, result, disk, ui, host, pair>>

\* A load that remembers the path before it reads the file.
PathAfterFailedLoadEager(config_path, current) ==
    IF config_path # "" THEN config_path ELSE current

\* The remembered path after a load that did not reach the assignment to
\* self.config_path.
PathAfterFailedLoad(config_path, current) == current

\* ConfigManager.load(config_path) at time now.  A JSON array makes from_dict
\* raise TypeError, which load does not catch.
load(config_path, now) ==
    LET path == IF config_path # "" THEN config_path ELSE mgr.config_path
        file == store[path]
        rec == [NextCall EXCEPT !.op = "load", !.arg = config_path]
        made == LauncherConfig_from_dict(file.doc, now)
    IN /\ call.calls < MaxCalls
       /\ IF file.kind \in {"missing", "invalid"}
          THEN /\ call' = [rec EXCEPT !.why = file.kind]
               /\ mgr' = [mgr EXCEPT !.config_path = PathAfterFailedLoad(config_path, @)]
          ELSE IF file.kind = "array"
          THEN /\ call' = [rec EXCEPT !.raised = "TypeError", !.why = "TypeError"]
               /\ mgr' = [mgr EXCEPT !.config_path = PathAfterFailedLoad(config_path, @)]
          ELSE IF made.raised # ""
          THEN /\ call' = [rec EXCEPT !.why = made.raised]
               /\ mgr' = [mgr EXCEPT !.config_path = PathAfterFailedLoad(config_path, @)]
          ELSE /\ mgr' = [config |-> made.config,
                          config_path |-> IF config_path # "" THEN config_path
                                          ELSE mgr.config_path]
               /\ call' = [rec EXCEPT !.returned = TRUE]
       /\ UNCHANGED store
       /\ UNCHANGED otherVars

\* ConfigManager.save() at time now, in a directory that can be written: the
\* manager and the files after it.
save(m, files, now) ==
    LET stamped == [m.config EXCEPT !.updated = now]
    IN [mgr |-> [m EXCEPT !.config = SelfAfterToDict(stamped, now)],
        store |-> [files EXCEPT ![m.config_path] =
                       JsonObject(LauncherConfig_to_dict(stamped, now))]]

\* ModsTab.add_mod
ModsTab_add_mod(now) ==
    LET new_mod == ModConfig___post_init__(
                       [NoMod EXCEPT !.name = <<"m">>, !.target_path = <<"p">>,
                                     !.description = <<"c">>,
                                     !.version = <<"1", ".", "0", ".", "0">>],
                       ModIds(mgr.config.mods))
        after == save([mgr EXCEPT !.config = add_mod(mgr.config, new_mod, now)], store, now)
    IN /\ call.calls < MaxCalls
       /\ Len(mgr.config.mods) < MaxMods
       /\ mgr' = after.mgr
       /\ store' = after.store
       /\ call' = [NextCall EXCEPT !.op = "add_mod", !.arg = new_mod.id,
                                 !.n = Len(mgr.config.mods)]
       /\ UNCHANGED otherVars

\* ModsTab.remove_selected_mod with one row selected and the removal confirmed.
remove_selected_mod(row, now) ==
    LET mod_id == mgr.config.mods[row].id
        removed == remove_mod(mgr.config, mod_id, now)
        after == save([mgr EXCEPT !.config = removed.self], store, now)
    IN /\ call.calls < MaxCalls
       /\ row \in 1..Len(mgr.config.mods)
       /\ mgr' = after.mgr
       /\ store' = after.store
       /\ call' = [NextCall EXCEPT !.op = "remove_mod", !.arg = mod_id,
                                 !.n = Len(mgr.config.mods),
                                 !.returned = removed.returned]
       /\ UNCHANGED otherVars

\* config.remove_mod(mod_id), called on the manager's configuration.
LauncherConfig_remove_mod(mod_id, now) ==
    LET removed == remove_mod(mgr.config, mod_id, now)
    IN /\ call.calls < MaxCalls
       /\ mgr' = [mgr EXCEPT !.config = removed.self]
       /\ call' = [NextCall EXCEPT !.op = "remove_mod", !.arg = mod_id,
                                  !.n = Len(mgr.config.mods),
                                  !.returned = removed.returned]
       /\ UNCHANGED store
       /\ UNCHANGED otherVars

\* ModsTab.on_table_item_changed for the name column: the first mod with the id
\* of the row takes the text.
on_table_item_changed(row, text, now) ==
    LET mod_id == mgr.config.mods[row].id
        at == CHOOSE i \in 1..Len(mgr.config.mods) :
                  /\ mgr.config.mods[i].id = mod_id
                  /\ \A j \in 1..(i - 1) : mgr.config.mods[j].id # mod_id
        after == save([mgr EXCEPT !.config.mods[at].name = text], store, now)
    IN /\ call.calls < MaxCalls
       /\ row \in 1..Len(mgr.config.mods)
       /\ mgr' = after.mgr
       /\ store' = after.store
       /\ call' = [NextCall EXCEPT !.op = "edit_mod", !.arg = mod_id]
       /\ UNCHANGED otherVars

\* AdvancedSettingsTab.on_target_os_changed(index)
on_target_os_changed(index, now) ==
    LET target_os == IF index = 0 THEN "windows"
                     ELSE IF index = 1 THEN "macos"
                     ELSE IF index = 2 THEN "linux"
                     ELSE "windows"
        after == save([mgr EXCEPT !.config.target_os = target_os], store, now)
    IN /\ call.calls < MaxCalls
       /\ mgr' = after.mgr
       /\ store' = after.store
       /\ call' = [NextCall EXCEPT !.op = "target_os"]
       /\ UNCHANGED otherVars

\* LauncherConfig.from_dict(config.to_dict()) on the manager's configuration,
\* the dict made at time now and read back at time later.
to_dict_from_dict(now, later) ==
    LET data == LauncherConfig_to_dict(mgr.config, now)
        made == LauncherConfig_from_dict(data, later)
    IN /\ call.calls < MaxCalls
       /\ mgr' = [mgr EXCEPT !.config = SelfAfterToDict(@, now)]
       /\ call' = [NextCall EXCEPT !.op = "round_trip", !.dict = data,
                                 !.raised = made.raised, !.back = made.config]
       /\ UNCHANGED store
       /\ UNCHANGED otherVars

ModelNext ==
    \/ \E p \in {"", "a.json"} : load(p, EditTime)
    \/ ModsTab_add_mod(EditTime)
    \/ \E row \in 1..MaxMods : remove_selected_mod(row, EditTime)
    \/ \E mod_id \in {"a", "zz"} : LauncherConfig_remove_mod(mod_id, EditTime)
    \/ \E row \in 1..MaxMods : on_table_item_changed(row, <<"x">>, EditTime)
    \/ \E index \in 0..2 : on_target_os_changed(index, EditTime)
    \/ \E now, later \in Times : to_dict_from_dict(now, later)


(***************************************************************************)
(* BuilderEngine (src/builder/builder_engine.py): build() runs PyInstaller *)
(* on a copy of the launcher template and copies the product to            *)
(* output_path.  disk is the set of files that exist; sink is the list of  *)
(* <<message, percent>> pairs the progress callback has accepted.          *)
(***************************************************************************)

\* str.isalnum() over the characters of the configuration names.
Alnum == {"G", "M", "1"}

\* ''.join(c if c.isalnum() else '_' for c in name)
safe_name(name) == [i \in 1..Len(name) |-> IF name[i] \in Alnum THEN name[i] ELSE "_"]

\* EXECUTABLE_EXTENSIONS.get(target_os, "")
EXECUTABLE_EXTENSIONS(target_os) ==
    IF target_os = "windows" THEN ".exe"
    ELSE IF target_os = "macos" THEN ".app"
    ELSE ""

\* The LauncherConfig fields build() reads.
Names == {<<"G", "1">>, <<"M", " ", "G">>, <<" ">>}

TargetOSes == {"windows", "macos", "linux", "amiga"}

\* What PyInstaller --onefile --windowed leaves in dist/ on the hosts whose
\* os.name is os_name; name.app is a directory.
Hosts == {"linux", "macos"}

\* A PyInstaller that reuses what an earlier run left in build/ and writes no
\* product of its own.
DistFilesCached(h, name) ==
    IF <<"build", name, "">> \in disk THEN {}
    ELSE IF h = "macos" THEN {<<"dist", name, "">>, <<"dist", name, ".app">>}
    ELSE {<<"dist", name, "">>}

DistFiles(h, name) ==
    IF h = "macos" THEN {<<"dist", name, "">>, <<"dist", name, ".app">>}
    ELSE {<<"dist", name, "">>}

\* The bytes of the executable PyInstaller writes: the configuration travels in
\* the archive as a data file, not between the codec's markers.
PyInstallerExe == <<"E", "L", "F">>

\* Lines PyInstaller writes to stdout in one run, at most.
MaxLines == 46

TemplateFile == <<"templates", "launcher_template.py", "">>

\* The locals of _build_executable (safe_name, progress, ext); lines, made,
\* copied, leftover and written (history): the lines read, the product of this
\* run of PyInstaller, the copies made, whether dist/ or build/ held files when
\* the call began, and the configuration to_dict() read for launcher_config.json.
NoLoc ==
    [safe_name |-> <<>>, progress |-> 0, ext |-> "none", lines |-> 0, made |-> {},
     copied |-> 0, leftover |-> FALSE, written |-> NoConfig]

NoResult ==
    [returned |-> FALSE, success |-> FALSE, error |-> "", stage |-> "", cause |-> "",
     config |-> NoConfig]

\* What a call of the progress callback does: it returns, or it raises an
\* exception whose str() is str.
CallbackReturns == [raises |-> FALSE, str |-> ""]

Callbacks ==
    {CallbackReturns, [raises |-> TRUE, str |-> ""], [raises |-> TRUE, str |-> "sink failed"]}

\* LineReported without the cap: every line raises the percentage.
LineReportedAlways(progress) == TRUE

\* The for loop over stdout reports a line only while progress < 80.
LineReported(progress) == progress < 80

NoUi == [button |-> TRUE, errors |-> {}, thread |-> "none", seen |-> 0,
         shown |-> <<>>, results |-> FALSE]

BuildIdleOn(h) ==
    /\ config = DefaultConfig
    /\ bpc = "idle"
    /\ loc = NoLoc
    /\ sink = <<>>
    /\ result = NoResult
    /\ disk = {TemplateFile}
    /\ ui = NoUi
    /\ host = h

BuildIdle == BuildIdleOn("linux")

\* report_progress(message, progress) with a callback that returns.
report_progress(message, progress) == sink' = Append(sink, <<message, progress>>)

\* A return that leaves the machine running.
ReturnAndGoOn(success, error, cause) ==
    /\ result' = [returned |-> TRUE, success |-> success, error |-> error,
                  stage |-> bpc, cause |-> cause, config |-> config]
    /\ bpc' = bpc

\* return (success, error) from build(); the with block removes the temp directory.
\* stage, cause and config (history): where the call stopped, why, and on what.
Return(success, error, cause) ==
    /\ result' = [returned |-> TRUE, success |-> success, error |-> error,
                  stage |-> bpc, cause |-> cause, config |-> config]
    /\ bpc' = "done"

\* _build_executable returned (False, error) or raised into its except clause.
BuildExecutableFailed(error, cause) ==
    Return(FALSE, "Failed to build executable: " \o error, cause)

TempFiles == {<<"tmp", "launcher_config.json", "">>, <<"tmp", "launcher.py", "">>}

\* build(output_path), up to the creation of the temporary directory.
BuildStartBody(cb) ==
    /\ bpc \in {"idle", "done"}
    /\ loc' = [NoLoc EXCEPT !.leftover = \E f \in disk : f[1] \in {"dist", "build"}]
    /\ IF cb.raises
       THEN /\ sink' = <<>>
            /\ Return(FALSE, cb.str, "callback")
       ELSE /\ sink' = <<<<"Preparing build environment...", 5>>>>
            /\ result' = NoResult
            /\ bpc' = "tmpdir"
    /\ UNCHANGED <<config, disk, host>>
    /\ UNCHANGED <<codecVars, modelVars>>

\* BuilderEngine(config).build(output_path), called directly.
BuildStart(cb) ==
    /\ ui.thread = "none"
    /\ BuildStartBody(cb)
    /\ UNCHANGED ui

\* tempfile.TemporaryDirectory(); mkdtemp_error: it raises and build() returns str(e).
MakeTempDir(mkdtemp_error, cb) ==
    /\ bpc = "tmpdir"
    /\ IF mkdtemp_error
       THEN /\ Return(FALSE, "[Errno 28] No space left on device", "mkdtemp")
            /\ UNCHANGED sink
       ELSE IF cb.raises
       THEN /\ Return(FALSE, cb.str, "callback")
            /\ UNCHANGED sink
       ELSE /\ report_progress("Creating launcher script and config...", 15)
            /\ bpc' = "script"
            /\ UNCHANGED result
    /\ UNCHANGED <<config, loc, disk, ui, host>>
    /\ UNCHANGED <<codecVars, modelVars>>

\* _create_launcher_script(temp_dir) and the check of its result in build();
\* write_error: writing one of the two files raises.  Every exception ends in
\* the same return None.
CreateLauncherScript(write_error, cb) ==
    /\ bpc = "script"
    /\ IF TemplateFile \notin disk
       THEN /\ Return(FALSE, "Failed to create launcher script", "template_missing")
            /\ UNCHANGED <<sink, disk, config, loc>>
       ELSE /\ config' = SelfAfterToDict(config, 1)
            /\ loc' = [loc EXCEPT !.written = config]
            /\ IF write_error
               THEN /\ Return(FALSE, "Failed to create launcher script", "script_write")
                    /\ UNCHANGED <<sink, disk>>
               ELSE IF cb.raises
               THEN /\ Return(FALSE, cb.str, "callback")
                    /\ UNCHANGED <<sink, disk>>
               ELSE /\ disk' = disk \cup TempFiles
                    /\ report_progress("Building executable...", 30)
                    /\ bpc' = "build"
                    /\ UNCHANGED result
    /\ UNCHANGED <<ui, host>>
    /\ UNCHANGED <<codecVars, modelVars>>

\* _build_executable up to subprocess.Popen; popen_error: Popen raises (PyInstaller
\* is not installed) and the except clause returns str(e).
StartPyInstaller(popen_error, cb) ==
    /\ bpc = "build"
    /\ loc' = [loc EXCEPT !.safe_name = safe_name(config.name), !.progress = 40]
    /\ IF cb.raises
       THEN /\ BuildExecutableFailed(cb.str, "callback")
            /\ disk' = disk \ TempFiles
            /\ UNCHANGED sink
       ELSE /\ report_progress("Running PyInstaller...", 40)
            /\ IF popen_error
               THEN /\ BuildExecutableFailed(
                          "[Errno 2] No such file or directory: 'pyinstaller'", "popen")
                    /\ disk' = disk \ TempFiles
               ELSE /\ bpc' = "lines"
                    /\ UNCHANGED <<result, disk>>
    /\ UNCHANGED <<config, ui, host>>
    /\ UNCHANGED <<codecVars, modelVars>>

\* One pass of the loop over process.stdout.
ReadLine(cb) ==
    /\ bpc = "lines"
    /\ loc.lines < MaxLines
    /\ IF ~LineReported(loc.progress)
       THEN /\ loc' = [loc EXCEPT !.lines = @ + 1]
            /\ UNCHANGED <<sink, bpc, result, disk>>
       ELSE IF cb.raises
       THEN /\ loc' = [loc EXCEPT !.progress = @ + 1, !.lines = @ + 1]
            /\ BuildExecutableFailed(cb.str, "callback")
            /\ disk' = disk \ TempFiles
            /\ UNCHANGED sink
       ELSE /\ loc' = [loc EXCEPT !.progress = @ + 1, !.lines = @ + 1]
            /\ report_progress("Building executable: line", loc.progress + 1)
            /\ UNCHANGED <<bpc, result, disk>>
    /\ UNCHANGED <<config, ui, host>>
    /\ UNCHANGED <<codecVars, modelVars>>

\* End of stdout, process.wait() and the checks before the copy.  On exit code 0
\* PyInstaller has written its product, build/ and the .spec file.
ProcessExit(returncode, cb) ==
    /\ bpc = "lines"
    /\ IF returncode # 0
       THEN /\ BuildExecutableFailed("PyInstaller failed with code 1: ", "returncode")
            /\ disk' = disk \ TempFiles
            /\ UNCHANGED <<sink, loc>>
       ELSE LET product == DistFiles(host, loc.safe_name)
                made == product \cup {<<"build", loc.safe_name, "">>,
                                      <<"", loc.safe_name, ".spec">>}
                ext == EXECUTABLE_EXTENSIONS(config.target_os)
                dist_path == <<"dist", loc.safe_name, ext>>
            IN /\ loc' = [loc EXCEPT !.made = product, !.ext = ext]
               /\ IF dist_path \notin (disk \cup made)
                  THEN /\ BuildExecutableFailed(
                             "PyInstaller did not create the expected file", "no_dist_file")
                       /\ disk' = (disk \cup made) \ TempFiles
                       /\ UNCHANGED sink
                  ELSE IF cb.raises
                  THEN /\ BuildExecutableFailed(cb.str, "callback")
                       /\ disk' = (disk \cup made) \ TempFiles
                       /\ UNCHANGED sink
                  ELSE /\ report_progress("Copying executable to destination...", 85)
                       /\ disk' = disk \cup made
                       /\ bpc' = "copy"
                       /\ UNCHANGED result
    /\ UNCHANGED <<config, ui, host>>
    /\ UNCHANGED <<codecVars, modelVars>>

OutputFiles == {<<"out", "launcher", "">>, <<"out", "launcher_config.json", "">>}

\* The two shutil.copy2 calls; copy_error = 1, 2: the first, the second raises
\* and the except clause returns str(e).  Copying name.app, a directory, raises.
CopyExecutable(copy_error, cb) ==
    /\ bpc = "copy"
    /\ EXECUTABLE_EXTENSIONS(config.target_os) = ".app" => copy_error = 1
    /\ IF copy_error = 1
       THEN /\ BuildExecutableFailed("[Errno 13] Permission denied", "copy")
            /\ disk' = disk \ TempFiles
            /\ UNCHANGED <<sink, fs, loc>>
       ELSE /\ fs' = [fs EXCEPT !["out"] =
                        [exists |-> TRUE, data |-> PyInstallerExe, exec |-> TRUE]]
            /\ IF copy_error = 2
               THEN /\ BuildExecutableFailed("[Errno 13] Permission denied", "copy")
                    /\ disk' = (disk \cup {<<"out", "launcher", "">>}) \ TempFiles
                    /\ loc' = [loc EXCEPT !.copied = 1]
                    /\ UNCHANGED sink
               ELSE IF cb.raises
               THEN /\ BuildExecutableFailed(cb.str, "callback")
                    /\ disk' = (disk \cup OutputFiles) \ TempFiles
                    /\ loc' = [loc EXCEPT !.copied = 2]
                    /\ UNCHANGED sink
               ELSE /\ disk' = disk \cup OutputFiles
                    /\ loc' = [loc EXCEPT !.copied = 2]
                    /\ report_progress("Cleaning up...", 90)
                    /\ bpc' = "cleanup"
                    /\ UNCHANGED result
    /\ UNCHANGED <<config, ui, host>>
    /\ UNCHANGED <<last, prov, embeds, tampered, modelVars>>

\* Removal of dist/, build/ and the .spec file; _build_executable returns True.
Cleanup(cb) ==
    /\ bpc = "cleanup"
    /\ IF cb.raises
       THEN /\ Return(FALSE, cb.str, "callback")
            /\ disk' = {f \in disk : f[1] \notin {"dist", "build"} /\ f[3] # ".spec"}
                          \ TempFiles
            /\ UNCHANGED sink
       ELSE /\ disk' = {f \in disk : f[1] \notin {"dist", "build"} /\ f[3] # ".spec"}
            /\ report_progress("Finalizing build...", 95)
            /\ bpc' = "final"
            /\ UNCHANGED result
    /\ UNCHANGED <<config, loc, ui, host>>
    /\ UNCHANGED <<codecVars, modelVars>>

\* The with block ends and build() returns (True, "").
Finish(cb) ==
    /\ bpc = "final"
    /\ disk' = disk \ TempFiles
    /\ IF cb.raises
       THEN /\ Return(FALSE, cb.str, "callback")
            /\ UNCHANGED sink
       ELSE /\ report_progress("Build completed successfully", 100)
            /\ Return(TRUE, "", "")
    /\ UNCHANGED <<config, loc, ui, host>>
    /\ UNCHANGED <<codecVars, modelVars>>

\* Between builds: the editor changes the configuration (and saves it, which
\* stamps "updated"), and the template file is installed or missing.  What the
\* last call reported and returned is dropped from the state.
EditConfig(name, target_os) ==
    /\ bpc \in {"idle", "done"}
    /\ ui.thread = "none"
    /\ config' = [config EXCEPT !.name = name, !.target_os = target_os, !.updated = 1]
    /\ config' # config
    /\ bpc' = "idle"
    /\ loc' = NoLoc
    /\ sink' = <<>>
    /\ result' = NoResult
    /\ UNCHANGED <<disk, ui, host>>
    /\ UNCHANGED <<codecVars, modelVars>>

SetTemplate(present) ==
    /\ bpc \in {"idle", "done"}
    /\ ui.thread = "none"
    /\ disk' = IF present THEN disk \cup {TemplateFile} ELSE disk \ {TemplateFile}
    /\ disk' # disk
    /\ bpc' = "idle"
    /\ loc' = NoLoc
    /\ sink' = <<>>
    /\ result' = NoResult
    /\ UNCHANGED <<config, ui, host>>
    /\ UNCHANGED <<codecVars, modelVars>>

BuildNext ==
    \/ \E cb \in Callbacks : BuildStart(cb)
    \/ \E e \in BOOLEAN, cb \in Callbacks : MakeTempDir(e, cb)
    \/ \E e \in BOOLEAN, cb \in Callbacks : CreateLauncherScript(e, cb)
    \/ \E e \in BOOLEAN, cb \in Callbacks : StartPyInstaller(e, cb)
    \/ \E cb \in Callbacks : ReadLine(cb)
    \/ \E rc \in {0, 1}, cb \in Callbacks : ProcessExit(rc, cb)
    \/ \E e \in 0..2, cb \in Callbacks : CopyExecutable(e, cb)
    \/ \E cb \in Callbacks : Cleanup(cb)
    \/ \E cb \in Callbacks : Finish(cb)
    \/ \E n \in Names, t \in TargetOSes : EditConfig(n, t)
    \/ \E b \in BOOLEAN : SetTemplate(b)

BuildInit == CodecInit(<<"T", "P", "L">>) /\ (\E h \in Hosts : BuildIdleOn(h)) /\ ModelIdle

BuildSpec == BuildInit /\ [][BuildNext]_vars

(***************************************************************************)
(* BuildTab and BuildThread (src/ui/tabs/build_tab.py): the Build button   *)
(* validates and starts a worker; the worker's signals are queued to the   *)
(* interface thread.  ui.shown (history) lists the notifications the slots *)
(* have received for the current run.                                      *)
(***************************************************************************)

\* "if errors:" without its effect.
RejectedNever(errors) == FALSE

\* start_build: "if errors:" on the dict validate() returned.
Rejected(errors) == errors # {}

\* BuildTab.start_build, with an output path whose directory exists.
start_build ==
    /\ ui.button
    /\ LET errors == validate_config(config)
       IN IF Rejected(errors)
          THEN ui' = [ui EXCEPT !.errors = errors]
          ELSE ui' = [button |-> FALSE, errors |-> {}, thread |-> "started",
                      seen |-> 0, shown |-> <<>>, results |-> FALSE]
    /\ UNCHANGED <<config, bpc, loc, sink, result, disk, host>>
    /\ UNCHANGED <<codecVars, modelVars>>

\* BuildThread.run up to the first report of build(); the callback emits a signal.
run ==
    /\ ui.thread = "started"
    /\ BuildStartBody(CallbackReturns)
    /\ ui' = [ui EXCEPT !.thread = "running"]

\* BuildThread.run: build() has returned, build_completed is emitted.
emit_completed ==
    /\ ui.thread = "running"
    /\ bpc = "done"
    /\ ui' = [ui EXCEPT !.thread = "emitted"]
    /\ UNCHANGED <<config, bpc, loc, sink, result, disk, host>>
    /\ UNCHANGED <<codecVars, modelVars>>

\* The signals emitted and not yet delivered, in the order of emission.
Pending ==
    [i \in 1..(Len(sink) - ui.seen) |->
        <<"progress", sink[ui.seen + i][1], sink[ui.seen + i][2]>>]
    \o (IF ui.thread = "emitted"
        THEN << <<"completed", result.error, IF result.success THEN 1 ELSE 0>> >>
        ELSE <<>>)

\* A queue that hands over its newest entry.
QueuedLast(q) == Len(q)

\* The event loop takes the oldest queued signal.
QueuedFirst(q) == 1

\* The interface thread runs the slot of the next queued signal:
\* update_progress or build_completed.
Deliver ==
    /\ ui.thread \in {"running", "emitted"}
    /\ Pending # <<>>
    /\ LET ev == Pending[QueuedFirst(Pending)]
       IN IF ev[1] = "progress"
          THEN ui' = [ui EXCEPT !.seen = @ + 1, !.shown = Append(@, ev)]
          ELSE ui' = [ui EXCEPT !.thread = "none", !.results = TRUE,
                                !.shown = Append(@, ev)]
    /\ UNCHANGED <<config, bpc, loc, sink, result, disk, host>>
    /\ UNCHANGED <<codecVars, modelVars>>

\* BuildTab.reset_build_ui, the slot of the "Start New Build" button of the results.
reset_build_ui ==
    /\ ui.results
    /\ ui' = [ui EXCEPT !.button = TRUE, !.results = FALSE]
    /\ UNCHANGED <<config, bpc, loc, sink, result, disk, host>>
    /\ UNCHANGED <<codecVars, modelVars>>

\* Lines PyInstaller writes in a build started from the interface, at most.
MaxThreadLines == 3

ThreadReadLine ==
    /\ loc.lines < MaxThreadLines
    /\ ReadLine(CallbackReturns)

\* The interface, the worker and the outcomes of the environment.
ThreadNext ==
    \/ start_build
    \/ run
    \/ \E e \in BOOLEAN : MakeTempDir(e, CallbackReturns)
    \/ \E e \in BOOLEAN : CreateLauncherScript(e, CallbackReturns)
    \/ \E e \in BOOLEAN : StartPyInstaller(e, CallbackReturns)
    \/ ThreadReadLine
    \/ \E rc \in {0, 1} : ProcessExit(rc, CallbackReturns)
    \/ \E e \in 0..2 : CopyExecutable(e, CallbackReturns)
    \/ Cleanup(CallbackReturns)
    \/ Finish(CallbackReturns)
    \/ emit_completed
    \/ Deliver
    \/ reset_build_ui
    \/ \E n \in Names, t \in TargetOSes : EditConfig(n, t)

ThreadInit == CodecInit(<<"T", "P", "L">>) /\ BuildIdle /\ ModelIdle

ThreadSpec == ThreadInit /\ [][ThreadNext]_vars

\* MainWindow.__init__: a new manager, no saved configuration yet, and the file
\* the user will open.
ModelInit ==
    /\ CodecInit(<<"T", "P", "L">>)
    /\ BuildIdle
    /\ mgr = ConfigManager(0)
    /\ \E f \in UserFiles : store = [p \in ConfigPaths |-> IF p = "a.json" THEN f ELSE MissingFile]
    /\ call = NoCall
    /\ pair = <<>>

ModelSpec == ModelInit /\ [][ModelNext]_vars

\* BasicSettingsTab.on_name_changed and AdvancedSettingsTab.on_target_os_changed
\* while the worker runs: the tabs stay enabled, and the engine holds the
\* LauncherConfig object they assign to; each handler ends with save().
EditWhileBuilding(name, target_os) ==
    LET edited == [config EXCEPT !.name = name, !.target_os = target_os]
        after == save([ConfigManager(0) EXCEPT !.config = edited], store, EditTime)
    IN /\ ui.thread = "running"
       /\ bpc # "done"
       /\ edited # config
       /\ config' = after.mgr.config
       /\ store' = after.store
       /\ UNCHANGED <<bpc, loc, sink, result, disk, ui, host>>
       /\ UNCHANGED <<codecVars, mgr, call, pair>>

\* The interface and the worker, in an environment where every step of the
\* build succeeds, and the editor at work during the build.
RaceNext ==
    \/ start_build
    \/ run
    \/ MakeTempDir(FALSE, CallbackReturns)
    \/ CreateLauncherScript(FALSE, CallbackReturns)
    \/ StartPyInstaller(FALSE, CallbackReturns)
    \/ ThreadReadLine
    \/ ProcessExit(0, CallbackReturns)
    \/ CopyExecutable(0, CallbackReturns)
    \/ Cleanup(CallbackReturns)
    \/ Finish(CallbackReturns)
    \/ emit_completed
    \/ Deliver
    \/ reset_build_ui
    \/ \E n \in {<<"G", "1">>, <<"M", " ", "G">>}, t \in {"windows", "linux"} :
          EditWhileBuilding(n, t)

RaceSpec == ThreadInit /\ [][RaceNext]_vars

\* ConfigManager.validate(): validate_config on the manager's configuration.
validate ==
    /\ call' = [NoCall EXCEPT !.op = "validate", !.errors = validate_config(mgr.config)]
    /\ UNCHANGED <<mgr, store>>
    /\ UNCHANGED otherVars

\* The download URLs of the configurations that are validated.
Urls ==
    { <<>>,
      <<" ">>,
      <<"n", "o", "t", "-", "a", "-", "u", "r", "l">>,
      <<"h", "t", "t", "p", ":", "/", "/", "a", "b">>,
      <<"h", "t", "t", "p", ":", "/", "/", "a">>,
      <<"f", "t", "p", ":", "/", "/", "a", " ", "b">>,
      <<"h", "t", "t", "p", "s", ":", "/", "/", "d", "r", "i", "v", "e", ".", "g", "o",
        "o", "g", "l", "e", ".", "c", "o", "m", "/", "f", "i", "l", "e", "/", "d", "/",
        "x", "y", "z">>,
      <<"h", "t", "t", "p", "s", ":", "/", "/", "w", "w", "w", ".", "d", "r", "o", "p",
        "b", "o", "x", ".", "c", "o", "m", "/", "s">> }

\* The mods lists: none, one mod with each URL, and two mods of which the
\* first or the second has a blank name and target path.
BlankMod == [DefaultMod EXCEPT !.name = <<" ">>, !.target_path = <<>>]

ModLists ==
    {<<>>}
    \cup {<<[DefaultMod EXCEPT !.download_url = u]>> : u \in Urls}
    \cup {<<[BlankMod EXCEPT !.download_url = u], DefaultMod>> : u \in Urls}
    \cup {<<DefaultMod, [BlankMod EXCEPT !.download_url = u]>> : u \in Urls}

Versions ==
    { <<>>, <<"1", ".", "0", ".", "0">>, <<"1", ".", "0">>, <<"v", "1", ".", "0", ".", "0">>,
      <<"1", ".", "0", ".", "0", "-", "b", "e", "t", "a">>, <<"1", "2", ".", "0", ".", "3", "4">> }

ValidatorConfigs ==
    { [DefaultConfig EXCEPT !.name = n, !.game_exe = g, !.version = v, !.mods = ms,
                            !.validation_files = vf, !.target_os = t] :
        n \in {<<"G">>, <<" ", "\t">>}, g \in {<<"g">>, <<>>}, v \in Versions,
        ms \in ModLists, vf \in {<<>>, << <<"g">> >>}, t \in {"macos", "amiga", ""} }

ValidateNext == validate

\* A manager holding any of the configurations, before validate() is called.
ValidateInit ==
    /\ CodecInit(<<"T", "P", "L">>)
    /\ BuildIdle
    /\ \E c \in ValidatorConfigs : mgr = [config |-> c, config_path |-> CONFIG_PATH]
    /\ store = [p \in ConfigPaths |-> MissingFile]
    /\ call = NoCall
    /\ pair = <<>>

ValidateSpec == ValidateInit /\ [][ValidateNext]_vars

(***************************************************************************)
(* Two BuilderEngine instances building at once in one process.  Each has  *)
(* its own configuration, temporary directory and output path;            *)
(* _build_executable names dist/, build/ and the .spec file relative to    *)
(* the working directory, which the two calls have in common.              *)
(***************************************************************************)
\* One build(output_path) call: the name and target_os of its configuration,
\* the directory of its output path, the exit code its PyInstaller will give,
\* where the call is, safe_name once computed, and what the call returned.
Engine(name, target_os, out_dir, returncode) ==
    [name |-> name, target_os |-> target_os, out_dir |-> out_dir,
     returncode |-> returncode, pc |-> "build", safe_name |-> <<>>,
     result |-> [returned |-> FALSE, success |-> FALSE, cause |-> ""]]

\* The output paths differ; their directories may be the same.
output_path_of(e) == <<pair.eng[e].out_dir, IF e = 1 THEN "launcher1" ELSE "launcher2", "">>

dist_path_of(e) ==
    <<"dist", pair.eng[e].safe_name, EXECUTABLE_EXTENSIONS(pair.eng[e].target_os)>>

\* Files are [path, by]: by is the build whose PyInstaller or whose
\* configuration the content comes from.
FileAt(path) == {f \in pair.files : f.path = path}

Written(files, paths, by) ==
    {f \in files : f.path \notin paths} \cup {[path |-> p, by |-> by] : p \in paths}

PairStep(e, eng, files) ==
    /\ pair' = [pair EXCEPT !.eng[e] = eng, !.files = files]
    /\ UNCHANGED <<codecVars, buildVars, mgr, store, call>>

PairReturn(e, success, cause, files) ==
    PairStep(e, [pair.eng[e] EXCEPT !.pc = "done",
                                    !.result = [returned |-> TRUE, success |-> success,
                                                cause |-> cause]],
             files)

\* build() up to subprocess.Popen: the temporary directory and the launcher
\* script are the call's own; safe_name is computed and the process started.
Popen(e) ==
    /\ pair.eng[e].pc = "build"
    /\ PairStep(e, [pair.eng[e] EXCEPT !.pc = "process",
                                       !.safe_name = safe_name(pair.eng[e].name)],
                pair.files)

\* The PyInstaller process of build e runs to its end: on exit code 0 it has
\* written its product, build/<name> and <name>.spec in the working directory.
PyInstallerExits(e) ==
    LET en == pair.eng[e]
        made == DistFiles("linux", en.safe_name)
                    \cup {<<"build", en.safe_name, "">>, <<"", en.safe_name, ".spec">>}
    IN /\ en.pc = "process"
       /\ PairStep(e, [en EXCEPT !.pc = "exited"],
                   IF en.returncode = 0 THEN Written(pair.files, made, e) ELSE pair.files)

\* End of stdout, process.wait(), the return code and os.path.exists(dist_path).
CheckDist(e) ==
    LET en == pair.eng[e]
    IN /\ en.pc = "exited"
       /\ IF en.returncode # 0
          THEN PairReturn(e, FALSE, "returncode", pair.files)
          ELSE IF FileAt(dist_path_of(e)) = {}
          THEN PairReturn(e, FALSE, "no_dist_file", pair.files)
          ELSE PairStep(e, [en EXCEPT !.pc = "copy"], pair.files)

\* shutil.copy2(dist_path, output_path); a missing source raises and the except
\* clause returns str(e).
CopyProduct(e) ==
    LET en == pair.eng[e]
    IN /\ en.pc = "copy"
       /\ IF FileAt(dist_path_of(e)) = {}
          THEN PairReturn(e, FALSE, "copy", pair.files)
          ELSE \E f \in FileAt(dist_path_of(e)) :
                  PairStep(e, [en EXCEPT !.pc = "copy_config"],
                           Written(pair.files, {output_path_of(e)}, f.by))

\* shutil.copy2(config_file, config_output_path), from the call's own
\* temporary directory.
CopyConfig(e) ==
    /\ pair.eng[e].pc = "copy_config"
    /\ PairStep(e, [pair.eng[e] EXCEPT !.pc = "cleanup"],
                Written(pair.files, {<<pair.eng[e].out_dir, "launcher_config.json", "">>}, e))

\* shutil.rmtree('dist')
RemoveDist(e) ==
    /\ pair.eng[e].pc = "cleanup"
    /\ PairStep(e, [pair.eng[e] EXCEPT !.pc = "cleanup_build"],
                {f \in pair.files : f.path[1] # "dist"})

\* shutil.rmtree('build'), os.remove(spec_file); _build_executable and build()
\* return (True, "").
RemoveBuild(e) ==
    LET en == pair.eng[e]
    IN /\ en.pc = "cleanup_build"
       /\ PairReturn(e, TRUE, "",
                     {f \in pair.files : /\ f.path[1] # "build"
                                         /\ f.path # <<"", en.safe_name, ".spec">>})

PairNext ==
    \E e \in {1, 2} :
        \/ Popen(e)
        \/ PyInstallerExits(e)
        \/ CheckDist(e)
        \/ CopyProduct(e)
        \/ CopyConfig(e)
        \/ RemoveDist(e)
        \/ RemoveBuild(e)

\* Two configurations that differ (names "G 1" and "G_1" have one safe_name),
\* two output paths, and an empty working directory.
PairInit ==
    /\ CodecInit(<<"T", "P", "L">>)
    /\ BuildIdle
    /\ mgr = NoMgr
    /\ store = [p \in ConfigPaths |-> MissingFile]
    /\ call = NoCall
    /\ \E name2 \in {<<"G", "_", "1">>, <<"M">>}, rc1 \in {0, 1}, rc2 \in {0, 1},
          out_dir2 \in {"out1", "out2"} :
          pair = [eng |-> <<Engine(<<"G", " ", "1">>, "linux", "out1", rc1),
                            Engine(name2, "linux", out_dir2, rc2)>>,
                  files |-> {}]

PairSpec == PairInit /\ [][PairNext]_vars

Init ==
    /\ \E t \in Templates : CodecInit(t)
    /\ BuildIdle
    /\ ModelIdle

\* embed_config(template_path, output_path, config_data); write_error: opening the
\* output file for writing raises, and the except clause returns the failure.
embed_config(template_path, output_path, c, write_error) ==
    LET r == EmbedBytes(fs[template_path].data, Configs[c])
        rec == [NoLast EXCEPT !.op = "embed", !.tpath = template_path,
                              !.path = output_path, !.cfg = c,
                              !.tpre = fs[template_path], !.opre = fs[output_path],
                              !.reembed = Intact(prov[template_path])]
    IN /\ UNCHANGED <<tampered, buildVars, modelVars>>
       /\ IF ~fs[template_path].exists THEN
              /\ last' = [rec EXCEPT !.msg = "Template executable not found"]
              /\ UNCHANGED <<fs, prov, embeds>>
          ELSE IF ~r.ok THEN
              /\ last' = [rec EXCEPT !.msg = r.msg]
              /\ UNCHANGED <<fs, prov, embeds>>
          ELSE IF write_error THEN
              /\ last' = [rec EXCEPT !.msg = "Failed to embed configuration"]
              /\ UNCHANGED <<fs, prov, embeds>>
          ELSE
              /\ embeds < MaxEmbeds
              /\ fs' = [fs EXCEPT ![output_path] =
                          [exists |-> TRUE, data |-> r.out,
                           exec |-> IF os_name = "posix" THEN TRUE ELSE @.exec]]
              /\ prov' = [prov EXCEPT ![output_path] =
                          [NoProv EXCEPT !.cfg = c,
                                         !.base = IF Intact(prov[template_path])
                                                  THEN prov[template_path].base
                                                  ELSE fs[template_path].data]]
              /\ embeds' = embeds + 1
              /\ last' = [rec EXCEPT !.ok = TRUE]

\* extract_config(executable_path)
extract_config(executable_path) ==
    LET r == IF fs[executable_path].exists THEN ExtractBytes(fs[executable_path].data)
             ELSE [ret |-> JNone, why |-> "missing"]
    IN /\ last' = [NoLast EXCEPT !.op = "extract", !.path = executable_path,
                                 !.ret = r.ret, !.why = r.why, !.ok = r.ret.t # "none"]
       /\ UNCHANGED <<fs, prov, embeds, tampered, buildVars, modelVars>>

\* verify_embedding(executable_path, expected_config)
verify_embedding(executable_path, c) ==
    LET r == IF fs[executable_path].exists THEN ExtractBytes(fs[executable_path].data)
             ELSE [ret |-> JNone, why |-> "missing"]
    IN /\ last' = [NoLast EXCEPT !.op = "verify", !.path = executable_path, !.cfg = c,
                                 !.ret = r.ret, !.why = r.why,
                                 !.ok = VerifyExtracted(r.ret, Configs[c])]
       /\ UNCHANGED <<fs, prov, embeds, tampered, buildVars, modelVars>>

\* Outside the program: one byte of the payload embedded in file p is overwritten.
PayloadStart(p) == Find(fs[p].data, CONFIG_MARKER_START, 0) + Len(CONFIG_MARKER_START)

Tamper(p, i, b) ==
    LET at == PayloadStart(p) + i
    IN /\ ~tampered
       /\ Intact(prov[p])
       /\ i \in 1..Len(Dumps(Configs[prov[p].cfg], 0))
       /\ fs[p].data[at] # b
       /\ fs' = [fs EXCEPT ![p].data[at] = b]
       /\ prov' = [prov EXCEPT ![p].tpos = i, ![p].told = fs[p].data[at], ![p].tnew = b]
       /\ tampered' = TRUE
       /\ last' = [NoLast EXCEPT !.op = "tamper", !.path = p]
       /\ UNCHANGED <<embeds, buildVars, modelVars>>

\* The calls of the codec's callers, on either file.
Next ==
    \/ \E tp \in Paths, op \in Paths, c \in ConfigIds, e \in BOOLEAN :
          embed_config(tp, op, c, e)
    \/ \E p \in Paths : extract_config(p)
    \/ \E p \in Paths, c \in ConfigIds : verify_embedding(p, c)

Spec == Init /\ [][Next]_vars

\* One build into "out", one byte of its payload changed, and the read-back.
NextTamper ==
    \/ \E c \in ConfigIds : embed_config("tpl", "out", c, FALSE)
    \/ \E i \in 1..Len(fs["out"].data), b \in TamperBytes : Tamper("out", i, b)
    \/ \E c \in ConfigIds : verify_embedding("out", c)

InitTamper == Init /\ fs["tpl"].data = <<"T", "P", "L">>

SpecTamper == InitTamper /\ [][NextTamper]_vars

(***************************************************************************)
(* Properties of the codec                                                 *)
(***************************************************************************)

\* Marker m occurs in d at offset i.
OccursAt(d, m, i) ==
    /\ i >= 0
    /\ i + Len(m) <= Len(d)
    /\ \A j \in 1..Len(m) : d[i + j] = m[j]

\* i is the first offset >= from at which m occurs in d.
FirstAt(d, m, from, i) ==
    /\ i >= from
    /\ OccursAt(d, m, i)
    /\ \A j \in from..(i - 1) : ~OccursAt(d, m, j)

HasStart(d) == \E i \in 0..Len(d) : OccursAt(d, CONFIG_MARKER_START, i)

\* The first START marker of d has no END marker at or after it.
DanglingStart(d) ==
    \E s \in 0..Len(d) :
        /\ FirstAt(d, CONFIG_MARKER_START, 0, s)
        /\ \A e \in s..Len(d) : ~OccursAt(d, CONFIG_MARKER_END, e)

\* The bytes strictly between the first START marker and the first END marker
\* after it are not UTF-8 JSON.
CorruptPayload(d) ==
    \E s \in 0..Len(d), e \in 0..Len(d) :
        /\ FirstAt(d, CONFIG_MARKER_START, 0, s)
        /\ FirstAt(d, CONFIG_MARKER_END, s, e)
        /\ LET payload == Slice(d, s + Len(CONFIG_MARKER_START), e)
           IN ~(DecodeOk(payload) /\ Loads(payload).ok)

\* C1: extract on the output of a successful embed(template, D) returns a dict
\* structurally equal to D, for every template and every configuration D.
C1_RoundTrip ==
    (last.op = "extract" /\ Intact(prov[last.path]))
        => JsonEq(last.ret, Configs[prov[last.path].cfg])

\* C2: embedding D2 into the output of embed(template, D1) gives a file from which
\* extract returns D2 and in which D1's payload is replaced, not kept: the file is
\* the one embed(template, D2) gives.
C2_ReEmbedReplaces ==
    (last.op = "embed" /\ last.ok /\ last.reembed)
        => /\ JsonEq(ExtractBytes(fs[last.path].data).ret, Configs[last.cfg])
           /\ fs[last.path].data
                = EmbedBytes(prov[last.path].base, Configs[last.cfg]).out

\* C3: on a file with no START marker, or whose first START marker has no END
\* marker at or after it, extract returns None by the not-found branches, never by
\* way of an exception.
C3_ExtractLenient ==
    (/\ last.op = "extract"
     /\ fs[last.path].exists
     /\ (~HasStart(fs[last.path].data) \/ DanglingStart(fs[last.path].data)))
        => /\ last.ret = JNone
           /\ last.why \in {"no_start", "no_end"}

C3_Witness ==
    /\ last.op = "extract"
    /\ fs[last.path].exists
    /\ DanglingStart(fs[last.path].data)
    /\ last.ret = JNone

\* C4: when the template's first START marker has no END marker at or after it,
\* embed fails with the invalid-markers error and writes nothing: the output path
\* and the template keep their content.
C4_EmbedStrict ==
    (last.op = "embed" /\ last.tpre.exists /\ DanglingStart(last.tpre.data))
        => /\ ~last.ok
           /\ last.msg = "Template has invalid configuration markers"
           /\ fs[last.path] = last.opre
           /\ fs[last.tpath] = last.tpre

C4_Witness ==
    /\ last.op = "embed"
    /\ last.tpre.exists
    /\ DanglingStart(last.tpre.data)
    /\ ~last.ok

\* C5: a successful embed writes template[0:s] || START || json || END ||
\* template[e:] when the template's first START marker is at s and the first END
\* marker at or after s ends at e, and template || START || json || END when the
\* template has no START marker.
C5_EmbedShape ==
    (last.op = "embed" /\ last.ok)
        => LET t == last.tpre.data
               block == CONFIG_MARKER_START \o Dumps(Configs[last.cfg], 0)
                           \o CONFIG_MARKER_END
           IN IF HasStart(t)
              THEN \E s \in 0..Len(t), e \in 0..Len(t) :
                      /\ FirstAt(t, CONFIG_MARKER_START, 0, s)
                      /\ FirstAt(t, CONFIG_MARKER_END, s, e - Len(CONFIG_MARKER_END))
                      /\ fs[last.path].data
                           = SubSeq(t, 1, s) \o block \o SubSeq(t, e + 1, Len(t))
              ELSE fs[last.path].data = t \o block

C5_Witness ==
    /\ last.op = "embed"
    /\ last.ok
    /\ HasStart(last.tpre.data)
    /\ last.tpre.data[Len(last.tpre.data)] = "L"
    /\ fs[last.path].data[Len(fs[last.path].data)] = "L"

\* C6: after every call of embed, successful or not, the bytes at template_path
\* are the bytes that were there before the call, also when output_path names the
\* same file.
C6_TemplateUntouched ==
    last.op = "embed" => fs[last.tpath].data = last.tpre.data

\* C7: when both markers are present and the bytes between them are not UTF-8
\* JSON, what extract returns differs from the None it returns when the markers
\* are absent.
C7_CorruptDistinct ==
    (last.op = "extract" /\ fs[last.path].exists /\ CorruptPayload(fs[last.path].data))
        => last.ret # JNone

RECURSIVE InsideString(_, _, _, _)
InsideString(text, j, i, inside) ==
    IF j >= i THEN inside /\ j = i
    ELSE IF inside /\ text[j] = "\\" THEN
        IF j + 1 = i THEN TRUE ELSE InsideString(text, j + 2, i, TRUE)
    ELSE IF text[j] = "\"" THEN InsideString(text, j + 1, i, ~inside)
    ELSE InsideString(text, j + 1, i, inside)

\* The change recorded in pv replaced whitespace between two JSON tokens of the
\* embedded text by another JSON whitespace character.
WhitespaceSwap(pv) ==
    /\ pv.told \in JSON_WHITESPACE
    /\ pv.tnew \in JSON_WHITESPACE
    /\ ~InsideString(Dumps(Configs[pv.cfg], 0), 1, pv.tpos, FALSE)

\* verify(output, D) is called on a file into which D was embedded and of whose
\* embedded JSON one character was changed since.
VerifyAfterTamper ==
    /\ last.op = "verify"
    /\ prov[last.path].cfg = last.cfg
    /\ prov[last.path].tpos > 0

\* C9 (as claimed): after a successful embed of D, changing any one character of
\* the embedded JSON bytes makes verify(output, D) return false.
C9_TamperDetected == VerifyAfterTamper => ~last.ok

\* C9 (amended): after a successful embed of D, changing one character of the
\* embedded JSON bytes makes verify(output, D) return false, unless the change
\* replaces whitespace between JSON tokens by another whitespace character.
C9_TamperDetectedAmended ==
    (VerifyAfterTamper /\ ~WhitespaceSwap(prov[last.path])) => ~last.ok

C9_Witness ==
    /\ VerifyAfterTamper
    /\ prov[last.path].told = "\""
    /\ prov[last.path].tnew = "Z"
    /\ ~last.ok

(***************************************************************************)
(* Properties of the build engine                                          *)
(***************************************************************************)

Percents(s) == [i \in 1..Len(s) |-> s[i][2]]

Messages(s) == [i \in 1..Len(s) |-> s[i][1]]

CountUp(from, n) == [i \in 1..n |-> from + i]

Failed == result.returned /\ ~result.success

\* C11: within one build invocation the percentages handed to the progress sink
\* never decrease, on successful and on failing runs, however many lines the
\* build step prints.
C11_ProgressMonotone ==
    \A i \in 1..(Len(sink) - 1) : sink[i][2] <= sink[i + 1][2]

C11_Witness ==
    /\ Failed
    /\ loc.lines > 40
    /\ Len(sink) = 45
    /\ sink[45][2] = 85

\* The percentage last accepted by the sink when build() stops at a stage.
LastPercentAt(stage) ==
    CASE stage = "tmpdir" -> {5}
      [] stage = "script" -> {15}
      [] stage = "build" -> {30, 40}
      [] stage = "lines" -> 40..80
      [] stage = "copy" -> {85}
      [] stage = "cleanup" -> {90}
      [] stage = "final" -> {95}
      [] OTHER -> {}

\* C12: fail-stop.  When a stage of build fails, build returns (False, error)
\* and no later stage is attempted: the last progress report is the one of the
\* failing stage or of the stage before it, 100 is never reported, no copy to
\* the output is made unless the copy stage was reached, the clean-up of a
\* failed PyInstaller stage is not run, and after the return nothing of the
\* build changes until the next call.
C12_FailStop ==
    /\ [](Failed =>
            /\ bpc = "done"
            /\ \A i \in 1..Len(sink) : sink[i][2] # 100
            /\ IF sink = <<>> THEN result.stage \in {"idle", "done"}
               ELSE sink[Len(sink)][2] \in LastPercentAt(result.stage)
            /\ result.stage \notin {"copy", "cleanup", "final"} => loc.copied = 0
            /\ result.stage \in {"lines", "copy"} => loc.made \subseteq disk)
    /\ [][(Failed /\ result' = result /\ bpc' = "done")
             => UNCHANGED <<sink, loc, disk, fs, config>>]_vars

C12_Witness ==
    /\ Failed
    /\ result.stage = "lines"
    /\ result.cause = "no_dist_file"
    /\ Len(sink) > 4
    /\ loc.made # {}

\* C13 (as claimed): for every return of build and of embed, the error message
\* is empty if and only if success is true.
C13_ErrorEmptyIffSuccess ==
    /\ result.returned => (result.error = "" <=> result.success)
    /\ last.op = "embed" => (last.msg = "" <=> last.ok)

C15_InvalidTargetFails ==
    (result.returned /\ result.config.target_os \notin {"windows", "macos", "linux"})
        => /\ ~result.success
           /\ loc.copied = 0
           /\ result.cause \notin {"mkdtemp", "script_write", "popen", "copy"}

\* C16 (as claimed): a missing template file makes the operation fail with an
\* error that no other failure produces, and nothing is written to the output.
C16_TemplateNotFoundDistinct ==
    /\ (Failed /\ result.cause = "template_missing") => loc.copied = 0
    /\ (Failed /\ result.cause # "template_missing")
          => result.error # "Failed to create launcher script"
    /\ (last.op = "embed" /\ ~last.ok /\ last.tpre.exists)
          => last.msg # "Template executable not found"

\* C17 (as claimed): every build that reports success has written a file from
\* which extract yields a configuration structurally equal to the input.
C17_SuccessIsVerified ==
    (result.returned /\ result.success)
        => /\ fs["out"].exists
           /\ VerifyExtracted(ExtractBytes(fs["out"].data).ret, to_dict(result.config))

\* C18: failures are local to one call.  A call that follows a failed one starts
\* from the locals and the result of a fresh engine, and what the failed call
\* left in dist/ and build/ never decides its outcome: the executable it copies
\* is one its own run of PyInstaller produced, and when it reports that the
\* expected file is missing, its own run did not produce it.
C18_FailuresAreLocal ==
    LET dist_path == <<"dist", loc.safe_name, EXECUTABLE_EXTENSIONS(config.target_os)>>
    IN /\ bpc = "tmpdir" => /\ loc = [NoLoc EXCEPT !.leftover = loc.leftover]
                            /\ result = NoResult
                            /\ Len(sink) = 1
       /\ (bpc \in {"copy", "cleanup", "final"} \/ (result.returned /\ result.success))
             => dist_path \in loc.made
       /\ (Failed /\ result.cause = "no_dist_file") => dist_path \notin loc.made

C18_Witness ==
    /\ result.returned
    /\ result.success
    /\ loc.leftover
    /\ loc.copied = 2

\* C19: build never changes the configuration it is given: every step of a
\* build (every step that is not an edit made between builds) leaves every
\* field of the LauncherConfig, the updated stamp and the mods list included,
\* as it was, on success and on failure.
C19_ConfigReadOnly == [][bpc' # "idle" => config' = config]_vars

C19_Witness ==
    /\ result.returned
    /\ result.success
    /\ result.config = config
    /\ config.updated = 0
    /\ Len(config.mods) = 1

\* The worker's steps and the event loop, which run on without the user.
ThreadWork ==
    \/ run
    \/ \E e \in BOOLEAN : MakeTempDir(e, CallbackReturns)
    \/ \E e \in BOOLEAN : CreateLauncherScript(e, CallbackReturns)
    \/ \E e \in BOOLEAN : StartPyInstaller(e, CallbackReturns)
    \/ ThreadReadLine
    \/ \E rc \in {0, 1} : ProcessExit(rc, CallbackReturns)
    \/ \E e \in 0..2 : CopyExecutable(e, CallbackReturns)
    \/ Cleanup(CallbackReturns)
    \/ Finish(CallbackReturns)
    \/ emit_completed
    \/ Deliver

\* ThreadSpec with a worker thread and an event loop that keep running.
ThreadLive == ThreadSpec /\ WF_vars(ThreadWork)

\* C20: for one build on the worker, the progress notifications reach the
\* interface in the order they were reported and before the terminal one;
\* nothing is delivered after the terminal notification, and exactly one
\* terminal notification is delivered.
C20_OrderedDelivery ==
    /\ []((ui.thread \in {"running", "emitted"} \/ result.returned) =>
            LET n == Len(ui.shown)
                terminal == n > 0 /\ ui.shown[n][1] = "completed"
                p == IF terminal THEN n - 1 ELSE n
            IN /\ p <= Len(sink)
               /\ \A i \in 1..p : ui.shown[i] = <<"progress", sink[i][1], sink[i][2]>>
               /\ terminal => /\ p = Len(sink)
                              /\ result.returned
                              /\ ui.shown[n] = <<"completed", result.error,
                                                 IF result.success THEN 1 ELSE 0>>
                              /\ ui.thread = "none"
               /\ ui.results => terminal)
    /\ (ui.thread = "started") ~> ui.results

C20_Witness ==
    /\ ui.results
    /\ result.success
    /\ Len(ui.shown) = 12
    /\ ui.shown[12][1] = "completed"
    /\ ui.shown[11] = <<"progress", "Build completed successfully", 100>>

(***************************************************************************)
(* Properties of the configuration model and of ConfigManager.load         *)
(***************************************************************************)

\* C24: in every reachable state of a LauncherConfig (defaults, loads of
\* configuration documents, editor changes) target_os is one of windows,
\* macos and linux.
C24_TargetOsInSet == mgr.config.target_os \in {"windows", "macos", "linux"}

\* Every entry the call leaves in place, by position, keeps its id.
IdsKept ==
    \A i \in 1..Len(mgr.config.mods) :
        i <= Len(mgr'.config.mods) /\ mgr'.config.mods[i].id = mgr.config.mods[i].id

\* C25: no two entries of the mods list have the same id, after any sequence
\* of add_mod, remove_mod, loads and mod edits; and a call that removes no
\* entry leaves every entry's id as it was.
C25_UniqueStableIds ==
    /\ [](\A i, j \in 1..Len(mgr.config.mods) :
              i # j => mgr.config.mods[i].id # mgr.config.mods[j].id)
    /\ [][call'.op \in {"add_mod", "edit_mod", "target_os", "round_trip"} => IdsKept]_vars

\* C26: from_dict(to_dict(c)) equals c in every field but updated (mods with
\* their ids and order included), and to_dict leaves c as it was.
C26_DictRoundTrip ==
    /\ [](call.op = "round_trip" =>
              /\ call.raised = ""
              /\ call.back = [mgr.config EXCEPT !.updated = call.back.updated]
              /\ call.dict["created_with"] = CREATED_WITH)
    /\ [][call'.op = "round_trip" => mgr' = mgr]_vars

C26_Witness ==
    /\ call.op = "round_trip"
    /\ Len(mgr.config.mods) = 3
    /\ mgr.config.mods[1].id = mgr.config.mods[3].id
    /\ call.back.updated # mgr.config.updated
    /\ call.back.mods = mgr.config.mods

\* The keys a mod dict and a configuration document must have.
ModLacksRequired(d) == ~({"name", "target_path", "download_url"} \subseteq DOMAIN d)

LacksRequired(doc) ==
    \/ ~({"name", "game_exe"} \subseteq DOMAIN doc)
    \/ /\ "mods" \in DOMAIN doc
       /\ \E i \in 1..Len(doc["mods"]) : ModLacksRequired(doc["mods"][i])

\* The value of a key of the document, or the documented default.
Documented(doc, key, default, value) ==
    value = IF key \in DOMAIN doc THEN doc[key] ELSE default

\* c is the configuration the document describes, with the documented
\* defaults for the optional entries it leaves out.
Deserialized(doc, c) ==
    /\ c.name = doc["name"] /\ c.game_exe = doc["game_exe"]
    /\ Documented(doc, "description", <<>>, c.description)
    /\ Documented(doc, "version", <<"1", ".", "0", ".", "0">>, c.version)
    /\ Documented(doc, "validation_files", <<>>, c.validation_files)
    /\ Documented(doc, "default_locations", <<>>, c.default_locations)
    /\ Documented(doc, "target_os", "windows", c.target_os)
    /\ Len(c.mods) = (IF "mods" \in DOMAIN doc THEN Len(doc["mods"]) ELSE 0)
    /\ \A i \in 1..Len(c.mods) :
          LET d == doc["mods"][i]
          IN /\ c.mods[i].name = d["name"]
             /\ c.mods[i].target_path = d["target_path"]
             /\ c.mods[i].download_url = d["download_url"]
             /\ Documented(d, "description", <<>>, c.mods[i].description)
             /\ Documented(d, "version", <<"1", ".", "0", ".", "0">>, c.mods[i].version)
             /\ Documented(d, "is_required", FALSE, c.mods[i].is_required)
             /\ c.mods[i].id # None

\* The file a load(arg) reads.
LoadedFile(arg) == store[IF arg # "" THEN arg ELSE mgr.config_path]

\* C27: deserializing a document that lacks a required entry (name, game_exe;
\* name, target_path, download_url of a mod) fails (KeyError, which load turns
\* into False); a document with all required entries deserializes, with the
\* documented defaults for the optional entries it lacks.
C27_RequiredAndDefaults ==
    [][(call'.op = "load" /\ LoadedFile(call'.arg).kind = "object") =>
          LET doc == LoadedFile(call'.arg).doc
          IN IF LacksRequired(doc)
             THEN call'.why = "KeyError" /\ ~call'.returned
             ELSE /\ call'.returned /\ call'.why = ""
                  /\ Deserialized(doc, mgr'.config)]_vars

C27_Witness ==
    /\ call.op = "load" /\ call.why = "KeyError"
    /\ LET doc == store["a.json"].doc
       IN /\ {"name", "game_exe"} \subseteq DOMAIN doc
          /\ Len(doc["mods"]) = 2
          /\ ~ModLacksRequired(doc["mods"][1])
          /\ "name" \notin DOMAIN doc["mods"][2]

\* The entries of mods whose id is not mod_id, in their order.
Without(mods, mod_id) ==
    LET Other(m) == m.id # mod_id
    IN SelectSeq(mods, Other)

\* C28: add_mod puts the new mod last and leaves the other entries in place;
\* remove_mod(id) removes exactly the entries with that id, keeps the others
\* in their order, and returns true exactly when an entry was removed.
C28_ModsKeepOrder ==
    [][/\ call'.op = "add_mod" =>
             /\ Len(mgr'.config.mods) = Len(mgr.config.mods) + 1
             /\ SubSeq(mgr'.config.mods, 1, Len(mgr.config.mods)) = mgr.config.mods
             /\ mgr'.config.mods[Len(mgr'.config.mods)].id = call'.arg
       /\ call'.op = "remove_mod" =>
             /\ mgr'.config.mods = Without(mgr.config.mods, call'.arg)
             /\ call'.returned <=> (call'.arg \in ModIds(mgr.config.mods))]_vars

C28_Witness ==
    /\ call.op = "remove_mod" /\ call.returned /\ call.arg = "a"
    /\ call.n = 3
    /\ Len(mgr.config.mods) = 1
    /\ mgr.config.mods[1].id = "b"

\* C29: a load that fails (the file is missing, is not JSON, or lacks a
\* required entry) returns False and leaves the configuration and the
\* remembered path as they were; the path changes only in a load that
\* succeeds, to the path supplied.
C29_FailedLoadKeepsState ==
    [][call'.op = "load" =>
          LET file == LoadedFile(call'.arg)
          IN /\ (\/ file.kind \in {"missing", "invalid"}
                 \/ file.kind = "object" /\ LacksRequired(file.doc))
                    => ~call'.returned /\ call'.raised = "" /\ mgr' = mgr
             /\ ~call'.returned => mgr' = mgr
             /\ mgr'.config_path # mgr.config_path =>
                    call'.returned /\ call'.arg # "" /\ mgr'.config_path = call'.arg]_vars

C29_Witness ==
    /\ call.op = "load" /\ ~call.returned /\ call.arg = "a.json"
    /\ call.why = "invalid"
    /\ call.calls >= 2
    /\ mgr.config_path = CONFIG_PATH
    /\ Len(mgr.config.mods) = 2

(***************************************************************************)
(* Properties of the validator                                             *)
(***************************************************************************)

Blank(text) == \A i \in 1..Len(text) : text[i] \in WHITESPACE

\* The rules a configuration violates, by the key of each: a blank name or
\* game_exe, a version that is present and not X.Y.Z, no mods, a mod with a
\* blank name, target path or URL or with a URL outside the accepted
\* patterns, no validation files, an unknown target OS.
ViolatedRules(c) ==
    {k \in {"name"} : Blank(c.name)}
    \cup {k \in {"game_exe"} : Blank(c.game_exe)}
    \cup {k \in {"version"} : Len(c.version) > 0 /\ ~_is_valid_version(c.version)}
    \cup {k \in {"mods"} : Len(c.mods) = 0}
    \cup {"mod_" \o ToString(i - 1) \o "_name" : i \in {j \in 1..Len(c.mods) : Blank(c.mods[j].name)}}
    \cup {"mod_" \o ToString(i - 1) \o "_target_path" :
             i \in {j \in 1..Len(c.mods) : Blank(c.mods[j].target_path)}}
    \cup {"mod_" \o ToString(i - 1) \o "_download_url" :
             i \in {j \in 1..Len(c.mods) :
                      \/ Blank(c.mods[j].download_url)
                      \/ ~_is_valid_url(c.mods[j].download_url)}}
    \cup {k \in {"validation_files"} : Len(c.validation_files) = 0}
    \cup {k \in {"target_os"} : c.target_os \notin {"windows", "macos", "linux"}}

Keys(errors) == {e[1] : e \in errors}

\* C22: validate applies every rule, whatever the others say: the keys of the
\* map are exactly the violated rules (one message each), and the map is
\* empty exactly when every rule holds.
C22_AllRulesIndependent ==
    call.op = "validate" =>
        /\ Keys(call.errors) = ViolatedRules(mgr.config)
        /\ Cardinality(call.errors) = Cardinality(Keys(call.errors))
        /\ (call.errors = {}) <=> (ViolatedRules(mgr.config) = {})

C22_Witness ==
    /\ call.op = "validate"
    /\ Keys(call.errors) =
           {"name", "game_exe", "version", "mod_1_name", "mod_1_target_path",
            "mod_1_download_url", "validation_files", "target_os"}

GDRIVE == <<"h", "t", "t", "p", "s", ":", "/", "/", "d", "r", "i", "v", "e", ".", "g", "o", "o", "g", "l", "e", ".", "c", "o", "m", "/">>

DROPBOX == <<"h", "t", "t", "p", "s", ":", "/", "/", "w", "w", "w", ".", "d", "r", "o", "p", "b", "o", "x", ".", "c", "o", "m", "/">>

\* C23: an empty mods list yields an error keyed mods; a first mod whose URL
\* is not empty and matches none of the three patterns ("not-a-url") yields
\* an error keyed mod_0_download_url; a mod whose URL is a Google Drive link
\* yields no download_url error.
C23_ModsAndUrlRules ==
    call.op = "validate" =>
        LET mods == mgr.config.mods
            keys == Keys(call.errors)
        IN /\ Len(mods) = 0 => "mods" \in keys
           /\ (/\ Len(mods) > 0
               /\ Len(mods[1].download_url) > 0
               /\ ~MatchesGenericUrl(mods[1].download_url)
               /\ ~MatchesHost(mods[1].download_url, GDRIVE)
               /\ ~MatchesHost(mods[1].download_url, DROPBOX))
                  => "mod_0_download_url" \in keys
           /\ (Len(mods) > 0 /\ mods[1].download_url = <<"n", "o", "t", "-", "a", "-", "u", "r", "l">>)
                  => "mod_0_download_url" \in keys
           /\ \A i \in 1..Len(mods) :
                  MatchesHost(mods[i].download_url, GDRIVE)
                      => ("mod_" \o ToString(i - 1) \o "_download_url") \notin keys

C23_Witness ==
    /\ call.op = "validate"
    /\ Len(mgr.config.mods) = 2
    /\ MatchesHost(mgr.config.mods[2].download_url, GDRIVE)
    /\ Len(mgr.config.mods[2].download_url) = 35
    /\ "mod_1_target_path" \in Keys(call.errors)
    /\ "mod_1_download_url" \notin Keys(call.errors)

(***************************************************************************)
(* Properties of builds that run next to the editor or next to each other  *)
(***************************************************************************)

\* C30: one build uses one state of the configuration: the name and the
\* extension that locate the product are those of the configuration written
\* into launcher_config.json, so an edit made while the worker runs neither
\* mixes two configurations in one output nor makes the build fail.
C30_OneSnapshot ==
    /\ loc.safe_name # <<>> => loc.safe_name = safe_name(loc.written.name)
    /\ loc.ext # "none" => loc.ext = EXECUTABLE_EXTENSIONS(loc.written.target_os)
    /\ (result.returned /\ result.cause = "no_dist_file") =>
           <<"dist", safe_name(loc.written.name),
             EXECUTABLE_EXTENSIONS(loc.written.target_os)>> \notin loc.made

\* What build e returns when it runs with no other build in the working
\* directory, and the output file it then leaves.
AloneResult(e) ==
    LET en == pair.eng[e]
        name == safe_name(en.name)
    IN IF en.returncode # 0
       THEN [returned |-> TRUE, success |-> FALSE, cause |-> "returncode"]
       ELSE IF <<"dist", name, EXECUTABLE_EXTENSIONS(en.target_os)>>
                   \notin DistFiles("linux", name)
       THEN [returned |-> TRUE, success |-> FALSE, cause |-> "no_dist_file"]
       ELSE [returned |-> TRUE, success |-> TRUE, cause |-> ""]

AloneOutput(e) ==
    IF AloneResult(e).success THEN {[path |-> output_path_of(e), by |-> e]} ELSE {}

\* C21: two builds on separate BuilderEngine instances with different output
\* paths do not affect each other: whatever the interleaving, a build that has
\* returned has returned what it returns when run alone, and its output path
\* holds what it holds then (its own product, or nothing).
C21_BuildsIndependent ==
    pair # <<>> =>
        \A e \in {1, 2} :
            pair.eng[e].pc = "done" =>
                /\ pair.eng[e].result = AloneResult(e)
                /\ FileAt(output_path_of(e)) = AloneOutput(e)

====
